---------------------------- MODULE Spec2Model ----------------------------
(***************************************************************************)
(* State-machine model of the Sena runtime core (kura120/Sena).            *)
(*                                                                         *)
(* Each component is modelled from its Python source as a group of         *)
(* variables with one action per handler step.  asyncio tasks are          *)
(* cooperative: an action covers the code that runs between two points at  *)
(* which the coroutine really suspends (an awaited I/O call, or an         *)
(* `async with lock` whose lock is taken).  Awaiting a coroutine that      *)
(* never suspends does not yield, so such calls are part of the same       *)
(* action.                                                                 *)
(*                                                                         *)
(* Components and their specifications:                                    *)
(*   SpecRegistry       src/llm/models/model_registry.py  ModelRegistry    *)
(*   SpecRegistryShutdown  the same, without switch_to                     *)
(*   SpecRouter         src/llm/router.py        IntentRouter circuit      *)
(*   SpecPersonality    src/memory/personality.py  PersonalityManager      *)
(*   SpecTelemetry      src/core/telemetry.py    TelemetryCollector        *)
(*   SpecOllamaManager  src/llm/ollama_manager.py  OllamaProcessManager    *)
(*   SpecShortTerm      src/memory/short_term.py, memory_repo.py           *)
(*   SpecPipeline       src/core/sena.py, src/api/routes/chat.py           *)
(*   SpecDatabase       src/database/connection.py  DatabaseManager        *)
(*   SpecAuditLog       personality_repo.py write_audit under _write_lock  *)
(*   SpecWebSocket      src/api/websocket/manager.py  WebSocketManager     *)
(*   SpecLongTerm       src/memory/long_term.py  LongTermMemory            *)
(*   SpecExtensions     src/extensions/manager.py  ExtensionManager        *)
(*   SpecPipelineRegistry  src/api/routes/processing.py  pipeline registry *)
(*   SpecGetSena        src/api/deps.py          get_sena                  *)
(***************************************************************************)
EXTENDS Integers, Sequences, FiniteSets, TLC

VARIABLES
    \* ---- ModelRegistry (src/llm/models/model_registry.py) ----
    models,        \* _models: slot -> ModelInfo/client identity (0 = key absent)
    modelLocks,    \* _model_locks: slot -> lock identity (0 = key absent)
    modelOrder,    \* insertion order of the keys of _models (dict iteration order)
    isLoaded,      \* client identity -> client.is_loaded
    loads,         \* client identity -> successful load() calls since its last unload()
    unloads,       \* client identity -> unload() calls made by shutdown
    nextClient,    \* number of OllamaClient objects constructed so far
    lockHolder,    \* lock identity -> task holding that asyncio.Lock
    switchLock,    \* task holding _switch_lock
    activeModel,   \* _active_model
    regInit,       \* an initialize() call has run to completion
    rpc,           \* task -> position inside the registry coroutine it runs
    rloc,          \* task -> the locals of that coroutine
    \* ---- IntentRouter circuit breaker (src/llm/router.py) ----
    routerFailureCount,     \* _router_failure_count
    routerCircuitOpenUntil, \* _router_circuit_open_until (monotonic seconds)
    rtNow,          \* time.monotonic()
    rtRouterPresent,\* registry.get_model(ROUTER) is not None
    rtFastPresent,  \* registry.get_model(FAST) is not None
    rtLoaded,       \* router_model.is_loaded
    cpc,            \* task -> position inside _llm_classify
    rtPath,         \* task -> the branch its current/last _llm_classify call took
    consecFails,    \* history: router-load failures since the last successful load
    winStart,       \* history: time of the latest failure that was the 3rd (or later) in a row
    \* ---- PersonalityManager (src/memory/personality.py, personality_repo.py) ----
    frags,          \* personality_fragments: fragment id -> row (NoFrag = no such row)
    nextFrag,       \* number of fragments created so far
    audit,          \* personality_audit, in insertion order
    blockCache,     \* _block_cache
    cacheDirty,     \* _cache_dirty
    ppc,            \* task -> position inside the PersonalityManager coroutine it runs
    ploc,           \* task -> the locals of that coroutine
    pOps,           \* number of mutating calls started
    \* ---- TelemetryCollector (src/core/telemetry.py) ----
    tEnabled,       \* settings.telemetry.enabled
    tRepo,          \* _repo is not None
    tInitialized,   \* _initialized
    tBuffer,        \* _buffer: the unflushed metric points, in recording order
    tStored,        \* rows of telemetry_metrics, in insertion order
    tNext,          \* number of metric points appended so far
    flushTask,      \* _flush_task: "none", or where _flush_loop stands
    loopBatch,      \* the local `buffer` of the _flush_buffer call made by _flush_loop
    tsd,            \* position inside shutdown()
    sdBatch,        \* the local `buffer` of the _flush_buffer call made by shutdown
    \* ---- OllamaProcessManager (src/llm/ollama_manager.py) ----
    omManage,       \* settings.llm.ollama_process.manage
    omProcess,      \* _process: the child handle held (NoProcess = None)
    omWeStarted,    \* _we_started
    procs,          \* process -> "unborn" / "starting" / "ready" / "exited"
    omNext,         \* number of child processes spawned so far
    omTerminated,   \* history: processes this manager sent terminate() or kill() to
    opc,            \* task -> position inside ensure_running / shutdown
    oloc,           \* task -> the process whose wait() its shutdown call awaits
    ores,           \* task -> outcome of its last finished call
    \* ---- Short-term memory (src/memory/short_term.py, memory_repo.py) ----
    stNow,          \* datetime.now(), in ticks
    stBuffer,       \* ShortTermMemory.buffer
    stRows,         \* rows of memory_short_term, in insertion (= timestamp) order
    stNextId,       \* number of messages added so far (to either store)
    stRead,         \* the latest read: which store, when, and the items it returned
    \* ---- Orchestrator pipeline (src/core/sena.py, src/api/routes/chat.py) ----
    req,            \* request -> its ProcessingContext and where its coroutine stands
    convLog,        \* conversations rows, in insertion order (the request of each)
    repoLog,        \* memory_short_term rows appended for the session, in order
    ctxLog,         \* items the chat routes appended to MemoryManager.short_term, in order
    errorCount,     \* error_handler._error_counts, summed over the error types
    metricsFor,     \* requests whose completion metrics were recorded
    \* ---- DatabaseManager (src/database/connection.py) ----
    schemaVersion,  \* versions recorded in table schema_version (committed)
    schema,         \* version -> statements of its migration script in effect (committed)
    applications,   \* version -> times its migration ran to the end and was recorded
    mpc,            \* where initialize() stands
    mV,             \* the version _run_migrations is applying
    inits,          \* initialize() calls started so far
    dbLock,         \* task holding _write_lock
    wpc,            \* task -> position inside its write call
    wapi,           \* task -> the write API it called
    dbPending,      \* tasks whose statement is left uncommitted on a pooled connection
    dbCommitted,    \* write statements committed so far
    \* ---- PersonalityRepository.write_audit (personality_repo.py, connection.py) ----
    alNow,          \* the clock datetime.now() reads
    alLock,         \* task holding _write_lock
    alQueue,        \* tasks waiting for _write_lock, in arrival order
    alCall,         \* task -> its write_audit call: position, timestamp, fragment
    alRows,         \* personality_audit rows in insertion order: fragment and timestamp
    alStarted,      \* write_audit calls started so far
    \* ---- WebSocketManager (src/api/websocket/manager.py, src/api/server.py) ----
    wsConnections,  \* keys of _connections (client ids are the counter values)
    wsClientCounter,\* _client_counter
    wsTransport,    \* client id -> websocket.client_state of its transport
    wsSubscribed,   \* client id -> the broadcast channel is in its subscriptions
    wsLock,         \* task holding _lock
    wsWaiters,      \* waiters of _lock, in arrival order
    wspc,           \* task -> position inside connect or broadcast
    wsloc,          \* task -> the locals of that coroutine
    \* ---- LongTermMemory (src/memory/long_term.py) ----
    ltRows,         \* memory_long_term rows in created_at order
    ltSearch,       \* the latest search call: query, k and the contents it returned
    \* ---- ExtensionManager (src/extensions/manager.py) ----
    extensions,     \* _extensions: module name -> Extension (NoExt = key absent)
    extCall,        \* the latest call: operation, name and the exception it raised
    \* ---- pipeline registry (src/api/routes/processing.py) ----
    prPipelines,    \* _pipelines: request id -> pipeline dict (NoPipeline = key absent)
    prOrder,        \* the keys of _pipelines in insertion order (dict iteration order)
    prActive,       \* _active_request_id (0 = None)
    prUpdates,      \* update_stage calls that found their pipeline and stage, so far
    \* ---- get_sena (src/api/deps.py) ----
    gsInstance,     \* _sena_instance (0 = None, else the identity of a Sena object)
    gsInitialized,  \* the Sena objects whose is_initialized is True
    gsLastAttempt,  \* _last_init_attempt
    gsNow,          \* time.monotonic()
    gsNextId,       \* number of Sena objects constructed so far
    gspc,           \* task -> position inside get_sena
    gsSelf,         \* task -> the Sena object its initialize() call runs on
    gsOut,          \* task -> outcome of its latest call (an instance, or an error)
    gsHanded        \* history: the instances get_sena has returned

regVars == <<models, modelLocks, modelOrder, isLoaded, loads, unloads, nextClient,
             lockHolder, switchLock, activeModel, regInit, rpc, rloc>>

routerVars == <<routerFailureCount, routerCircuitOpenUntil, rtNow, rtRouterPresent,
                rtFastPresent, rtLoaded, cpc, rtPath, consecFails, winStart>>

persVars == <<frags, nextFrag, audit, blockCache, cacheDirty, ppc, ploc, pOps>>

telVars == <<tEnabled, tRepo, tInitialized, tBuffer, tStored, tNext, flushTask, loopBatch,
             tsd, sdBatch>>

omVars == <<omManage, omProcess, omWeStarted, procs, omNext, omTerminated, opc, oloc, ores>>

stVars == <<stNow, stBuffer, stRows, stNextId, stRead>>

plVars == <<req, convLog, repoLog, ctxLog, errorCount, metricsFor>>

dbVars == <<schemaVersion, schema, applications, mpc, mV, inits, dbLock, wpc, wapi,
            dbPending, dbCommitted>>

alVars == <<alNow, alLock, alQueue, alCall, alRows, alStarted>>

wsVars == <<wsConnections, wsClientCounter, wsTransport, wsSubscribed, wsLock, wsWaiters,
            wspc, wsloc>>

ltVars == <<ltRows, ltSearch>>

extVars == <<extensions, extCall>>

prVars == <<prPipelines, prOrder, prActive, prUpdates>>

gsVars == <<gsInstance, gsInitialized, gsLastAttempt, gsNow, gsNextId, gspc, gsSelf, gsOut,
            gsHanded>>

nonRegVars ==
    <<routerVars, persVars, telVars, omVars, stVars, plVars, dbVars, alVars, wsVars,
      ltVars, extVars, prVars, gsVars>>
nonRouterVars ==
    <<regVars, persVars, telVars, omVars, stVars, plVars, dbVars, alVars, wsVars,
      ltVars, extVars, prVars, gsVars>>
nonPersVars ==
    <<regVars, routerVars, telVars, omVars, stVars, plVars, dbVars, alVars, wsVars,
      ltVars, extVars, prVars, gsVars>>
nonTelVars ==
    <<regVars, routerVars, persVars, omVars, stVars, plVars, dbVars, alVars, wsVars,
      ltVars, extVars, prVars, gsVars>>
nonOmVars ==
    <<regVars, routerVars, persVars, telVars, stVars, plVars, dbVars, alVars, wsVars,
      ltVars, extVars, prVars, gsVars>>
nonStVars ==
    <<regVars, routerVars, persVars, telVars, omVars, plVars, dbVars, alVars, wsVars,
      ltVars, extVars, prVars, gsVars>>
nonPlVars ==
    <<regVars, routerVars, persVars, telVars, omVars, stVars, dbVars, alVars, wsVars,
      ltVars, extVars, prVars, gsVars>>
nonDbVars ==
    <<regVars, routerVars, persVars, telVars, omVars, stVars, plVars, alVars, wsVars,
      ltVars, extVars, prVars, gsVars>>
nonAlVars ==
    <<regVars, routerVars, persVars, telVars, omVars, stVars, plVars, dbVars, wsVars,
      ltVars, extVars, prVars, gsVars>>
nonWsVars ==
    <<regVars, routerVars, persVars, telVars, omVars, stVars, plVars, dbVars, alVars,
      ltVars, extVars, prVars, gsVars>>
nonLtVars ==
    <<regVars, routerVars, persVars, telVars, omVars, stVars, plVars, dbVars, alVars,
      wsVars, extVars, prVars, gsVars>>
nonExtVars ==
    <<regVars, routerVars, persVars, telVars, omVars, stVars, plVars, dbVars, alVars,
      wsVars, ltVars, prVars, gsVars>>
nonPrVars ==
    <<regVars, routerVars, persVars, telVars, omVars, stVars, plVars, dbVars, alVars,
      wsVars, ltVars, extVars, gsVars>>
nonGsVars ==
    <<regVars, routerVars, persVars, telVars, omVars, stVars, plVars, dbVars, alVars,
      wsVars, ltVars, extVars, prVars>>

vars ==
    <<regVars, routerVars, persVars, telVars, omVars, stVars, plVars, dbVars, alVars,
      wsVars, ltVars, extVars, prVars, gsVars>>

-----------------------------------------------------------------------------
(* Shared vocabulary *)

Tasks == {"t1", "t2"}
NoTask == "none"

-----------------------------------------------------------------------------
(***************************************************************************)
(* ModelRegistry                                                           *)
(***************************************************************************)

\* Bound: OllamaClient objects that may be constructed in one run.
MaxClients == 3

Slots == {"fast", "critical", "router"}
\* settings.llm.models: the slots that carry a configuration.
ConfiguredSlots == <<"fast", "critical">>
ClientIds == 1..MaxClients
NoSlot == "none"

RIdle == [slot |-> NoSlot, client |-> 0, lock |-> 0, idx |-> 0, seen |-> {}, size |-> 0]

InitRegistry ==
    /\ models = [s \in Slots |-> 0]
    /\ modelLocks = [s \in Slots |-> 0]
    /\ modelOrder = <<>>
    /\ isLoaded = [c \in ClientIds |-> FALSE]
    /\ loads = [c \in ClientIds |-> 0]
    /\ unloads = [c \in ClientIds |-> 0]
    /\ nextClient = 0
    /\ lockHolder = [c \in ClientIds |-> NoTask]
    /\ switchLock = NoTask
    /\ activeModel = NoSlot
    /\ regInit = FALSE
    /\ rpc = [t \in Tasks |-> "idle"]
    /\ rloc = [t \in Tasks |-> RIdle]

InSeq(x, sq) == \E i \in 1..Len(sq) : sq[i] = x

\* register_model: a fresh client and a fresh lock replace whatever the slot held.
\* (m, l, o, n) are the current _models, _model_locks, key order and client count.
RegisterInto(m, l, o, n, s) ==
    [m |-> [m EXCEPT ![s] = n + 1],
     l |-> [l EXCEPT ![s] = n + 1],
     o |-> IF InSeq(s, o) THEN o ELSE Append(o, s),
     n |-> n + 1]

RECURSIVE RegisterAll(_, _, _, _, _)
RegisterAll(m, l, o, n, todo) ==
    IF todo = <<>> THEN [m |-> m, l |-> l, o |-> o, n |-> n]
    ELSE LET r == RegisterInto(m, l, o, n, Head(todo))
         IN RegisterAll(r.m, r.l, r.o, r.n, Tail(todo))

\* `lock = self._model_locks.get(model_type, self._switch_lock)`; 0 stands for _switch_lock
LockFree(l) == IF l = 0 THEN switchLock = NoTask ELSE lockHolder[l] = NoTask


\* Taking and releasing an asyncio.Lock (l = 0 is _switch_lock).
Acquire(l, t) ==
    /\ switchLock' = IF l = 0 THEN t ELSE switchLock
    /\ lockHolder' = IF l = 0 THEN lockHolder ELSE [lockHolder EXCEPT ![l] = t]

Release(l) ==
    /\ switchLock' = IF l = 0 THEN NoTask ELSE switchLock
    /\ lockHolder' = IF l = 0 THEN lockHolder ELSE [lockHolder EXCEPT ![l] = NoTask]

\* The hard interlock of initialize(): the router slot takes the fast slot's
\* ModelInfo and lock (only when the fast slot is registered).
Interlock(m, l, o) ==
    IF m["fast"] # 0
    THEN [m |-> [m EXCEPT !["router"] = m["fast"]],
          l |-> [l EXCEPT !["router"] = l["fast"]],
          o |-> IF InSeq("router", o) THEN o ELSE Append(o, "router")]
    ELSE [m |-> m, l |-> l, o |-> o]

\* register_model(model_type, config) called on its own for a configured slot.
RegisterModel(t, s) ==
    /\ rpc[t] = "idle"
    /\ InSeq(s, ConfiguredSlots)
    /\ nextClient < MaxClients
    /\ LET r == RegisterInto(models, modelLocks, modelOrder, nextClient, s)
       IN /\ models' = r.m
          /\ modelLocks' = r.l
          /\ modelOrder' = r.o
          /\ nextClient' = r.n
    /\ UNCHANGED <<isLoaded, loads, unloads, lockHolder, switchLock, activeModel,
                   regInit, rpc, rloc>>
    /\ UNCHANGED nonRegVars

\* initialize(): registers every configured non-router slot, then enters
\* switch_to(FAST).  The fresh fast client is not loaded, so the call suspends in
\* load() while holding _switch_lock, or waits for _switch_lock.
InitializeStart(t) ==
    /\ rpc[t] = "idle"
    /\ nextClient + Len(ConfiguredSlots) <= MaxClients
    /\ LET r == RegisterAll(models, modelLocks, modelOrder, nextClient, ConfiguredSlots)
       IN /\ models' = r.m
          /\ modelLocks' = r.l
          /\ modelOrder' = r.o
          /\ nextClient' = r.n
          /\ IF r.m["fast"] = 0
             THEN \* "Fast model not registered - router interlock skipped."
                  /\ regInit' = TRUE
                  /\ UNCHANGED <<switchLock, rpc, rloc>>
             ELSE /\ regInit' = regInit
                  /\ IF switchLock = NoTask
                     THEN /\ switchLock' = t
                          /\ rpc' = [rpc EXCEPT ![t] = "init_loading"]
                          /\ rloc' = [rloc EXCEPT ![t] =
                                        [RIdle EXCEPT !.slot = "fast", !.client = r.m["fast"]]]
                     ELSE /\ rpc' = [rpc EXCEPT ![t] = "init_wait"]
                          /\ rloc' = [rloc EXCEPT ![t] = [RIdle EXCEPT !.slot = "fast"]]
                          /\ UNCHANGED switchLock
    /\ UNCHANGED <<isLoaded, loads, unloads, lockHolder, activeModel>>
    /\ UNCHANGED nonRegVars

\* What initialize() does once switch_to(FAST) has returned: the interlock.
InitializeFinish(t) ==
    LET r == Interlock(models, modelLocks, modelOrder)
    IN /\ models' = r.m
       /\ modelLocks' = r.l
       /\ modelOrder' = r.o
       /\ regInit' = TRUE
       /\ rpc' = [rpc EXCEPT ![t] = "idle"]
       /\ rloc' = [rloc EXCEPT ![t] = RIdle]

\* initialize() obtains _switch_lock inside switch_to(FAST) after waiting for it.
InitializeAcquire(t) ==
    /\ rpc[t] = "init_wait"
    /\ switchLock = NoTask
    /\ IF models["fast"] = 0
       THEN \* LLMModelNotFoundError leaves switch_to and initialize
            /\ rpc' = [rpc EXCEPT ![t] = "idle"]
            /\ rloc' = [rloc EXCEPT ![t] = RIdle]
            /\ UNCHANGED <<models, modelLocks, modelOrder, regInit, switchLock, activeModel>>
       ELSE IF isLoaded[models["fast"]]
            THEN /\ activeModel' = "fast"
                 /\ InitializeFinish(t)
                 /\ UNCHANGED switchLock
            ELSE /\ switchLock' = t
                 /\ rpc' = [rpc EXCEPT ![t] = "init_loading"]
                 /\ rloc' = [rloc EXCEPT ![t] = [rloc[t] EXCEPT !.client = models["fast"]]]
                 /\ UNCHANGED <<models, modelLocks, modelOrder, regInit, activeModel>>
    /\ UNCHANGED <<isLoaded, loads, unloads, nextClient, lockHolder>>
    /\ UNCHANGED nonRegVars

\* client.load() returns (ok) or raises (~ok) inside initialize()'s switch_to(FAST).
InitializeLoadDone(t, ok) ==
    /\ rpc[t] = "init_loading"
    /\ switchLock' = NoTask
    /\ IF ok
       THEN /\ isLoaded' = [isLoaded EXCEPT ![rloc[t].client] = TRUE]
            /\ loads' = [loads EXCEPT ![rloc[t].client] = @ + 1]
            /\ activeModel' = "fast"
            /\ InitializeFinish(t)
       ELSE /\ rpc' = [rpc EXCEPT ![t] = "idle"]
            /\ rloc' = [rloc EXCEPT ![t] = RIdle]
            /\ UNCHANGED <<isLoaded, loads, activeModel, models, modelLocks, modelOrder, regInit>>
    /\ UNCHANGED <<unloads, nextClient, lockHolder>>
    /\ UNCHANGED nonRegVars


\* switch_to(slot): everything runs under _switch_lock; an unloaded client is loaded
\* while the lock stays held.  (An unregistered slot raises with no effect.)
SwitchToAcquire(t, s) ==
    /\ rpc[t] = "idle"
    /\ switchLock = NoTask
    /\ models[s] # 0
    /\ IF isLoaded[models[s]]
       THEN /\ activeModel' = s
            /\ UNCHANGED <<switchLock, rpc, rloc>>
       ELSE /\ switchLock' = t
            /\ rpc' = [rpc EXCEPT ![t] = "switch_loading"]
            /\ rloc' = [rloc EXCEPT ![t] = [RIdle EXCEPT !.slot = s, !.client = models[s]]]
            /\ UNCHANGED activeModel
    /\ UNCHANGED <<models, modelLocks, modelOrder, isLoaded, loads, unloads, nextClient,
                   lockHolder, regInit>>
    /\ UNCHANGED nonRegVars

SwitchToLoadDone(t, ok) ==
    /\ rpc[t] = "switch_loading"
    /\ switchLock' = NoTask
    /\ IF ok
       THEN /\ isLoaded' = [isLoaded EXCEPT ![rloc[t].client] = TRUE]
            /\ loads' = [loads EXCEPT ![rloc[t].client] = @ + 1]
            /\ activeModel' = rloc[t].slot
       ELSE UNCHANGED <<isLoaded, loads, activeModel>>
    /\ rpc' = [rpc EXCEPT ![t] = "idle"]
    /\ rloc' = [rloc EXCEPT ![t] = RIdle]
    /\ UNCHANGED <<models, modelLocks, modelOrder, unloads, nextClient, lockHolder, regInit>>
    /\ UNCHANGED nonRegVars

\* get_client(slot): model_info and the slot's lock are read first, then the lock is
\* taken; under the lock an unloaded client is loaded.
GetClientStart(t, s) ==
    /\ rpc[t] = "idle"
    /\ models[s] # 0
    /\ LET c == models[s]
           l == modelLocks[s]
       IN IF LockFree(l)
          THEN /\ ~isLoaded[c]     \* a loaded client is returned at once
               /\ Acquire(l, t)
               /\ rpc' = [rpc EXCEPT ![t] = "get_loading"]
               /\ rloc' = [rloc EXCEPT ![t] = [RIdle EXCEPT !.slot = s, !.client = c, !.lock = l]]
          ELSE /\ rpc' = [rpc EXCEPT ![t] = "get_wait"]
               /\ rloc' = [rloc EXCEPT ![t] = [RIdle EXCEPT !.slot = s, !.client = c, !.lock = l]]
               /\ UNCHANGED <<switchLock, lockHolder>>
    /\ UNCHANGED <<models, modelLocks, modelOrder, isLoaded, loads, unloads, nextClient,
                   activeModel, regInit>>
    /\ UNCHANGED nonRegVars

GetClientAcquire(t) ==
    /\ rpc[t] = "get_wait"
    /\ LockFree(rloc[t].lock)
    /\ IF isLoaded[rloc[t].client]
       THEN /\ rpc' = [rpc EXCEPT ![t] = "idle"]
            /\ rloc' = [rloc EXCEPT ![t] = RIdle]
            /\ UNCHANGED <<switchLock, lockHolder>>
       ELSE /\ Acquire(rloc[t].lock, t)
            /\ rpc' = [rpc EXCEPT ![t] = "get_loading"]
            /\ UNCHANGED rloc
    /\ UNCHANGED <<models, modelLocks, modelOrder, isLoaded, loads, unloads, nextClient,
                   activeModel, regInit>>
    /\ UNCHANGED nonRegVars

GetClientLoadDone(t, ok) ==
    /\ rpc[t] = "get_loading"
    /\ Release(rloc[t].lock)
    /\ IF ok
       THEN /\ isLoaded' = [isLoaded EXCEPT ![rloc[t].client] = TRUE]
            /\ loads' = [loads EXCEPT ![rloc[t].client] = @ + 1]
       ELSE UNCHANGED <<isLoaded, loads>>
    /\ rpc' = [rpc EXCEPT ![t] = "idle"]
    /\ rloc' = [rloc EXCEPT ![t] = RIdle]
    /\ UNCHANGED <<models, modelLocks, modelOrder, unloads, nextClient, activeModel, regInit>>
    /\ UNCHANGED nonRegVars

\* shutdown(): the loop over _models.items().  Starting at position i of the key
\* order with the set `seen` of client identities, skip the slots whose client was
\* seen and record the clients that are not loaded; stop at the first unseen loaded
\* client (whose unload() is awaited) or past the end.
NeverSeen(c, seen) == FALSE
\* `if client_id in seen: continue`
AlreadySeen(c, seen) == c \in seen

RECURSIVE ShutdownScan(_, _)
ShutdownScan(i, seen) ==
    IF i > Len(modelOrder) THEN [idx |-> i, seen |-> seen, client |-> 0]
    ELSE LET c == models[modelOrder[i]]
         IN IF AlreadySeen(c, seen) THEN ShutdownScan(i + 1, seen)
            ELSE IF isLoaded[c] THEN [idx |-> i, seen |-> seen \cup {c}, client |-> c]
            ELSE ShutdownScan(i + 1, seen \cup {c})

\* The end of shutdown(): both dicts are cleared.
ShutdownClear ==
    /\ models' = [s \in Slots |-> 0]
    /\ modelLocks' = [s \in Slots |-> 0]
    /\ modelOrder' = <<>>
    /\ activeModel' = NoSlot

ShutdownContinue(t, from, seen) ==
    LET r == ShutdownScan(from, seen)
    IN IF r.client = 0
       THEN /\ ShutdownClear
            /\ rpc' = [rpc EXCEPT ![t] = "idle"]
            /\ rloc' = [rloc EXCEPT ![t] = RIdle]
       ELSE /\ rpc' = [rpc EXCEPT ![t] = "shutdown_unloading"]
            /\ rloc' = [rloc EXCEPT ![t] = [RIdle EXCEPT !.client = r.client, !.idx = r.idx,
                                             !.seen = r.seen, !.size = Len(modelOrder)]]
            /\ UNCHANGED <<models, modelLocks, modelOrder, activeModel>>

ShutdownStart(t) ==
    /\ rpc[t] = "idle"
    /\ modelOrder # <<>>
    /\ ShutdownContinue(t, 1, {})
    /\ UNCHANGED <<isLoaded, loads, unloads, nextClient, lockHolder, switchLock, regInit>>
    /\ UNCHANGED nonRegVars

\* client.unload() returns, or raises before it cleared is_loaded (the exception
\* is logged); the loop goes on.  A dict whose size changed while the coroutine
\* was suspended makes the iteration raise RuntimeError, which leaves shutdown()
\* before the dicts are cleared.
ShutdownUnloadDone(t, ok) ==
    /\ rpc[t] = "shutdown_unloading"
    /\ isLoaded' = IF ok THEN [isLoaded EXCEPT ![rloc[t].client] = FALSE] ELSE isLoaded
    /\ loads' = IF ok THEN [loads EXCEPT ![rloc[t].client] = 0] ELSE loads
    /\ unloads' = [unloads EXCEPT ![rloc[t].client] = @ + 1]
    /\ IF Len(modelOrder) # rloc[t].size
       THEN /\ rpc' = [rpc EXCEPT ![t] = "idle"]
            /\ rloc' = [rloc EXCEPT ![t] = RIdle]
            /\ UNCHANGED <<models, modelLocks, modelOrder, activeModel>>
       ELSE ShutdownContinue(t, rloc[t].idx + 1, rloc[t].seen)
    /\ UNCHANGED <<nextClient, lockHolder, switchLock, regInit>>
    /\ UNCHANGED nonRegVars


NextRegistry ==
    \/ \E t \in Tasks, s \in Slots : RegisterModel(t, s)
    \/ \E t \in Tasks : InitializeStart(t)
    \/ \E t \in Tasks : InitializeAcquire(t)
    \/ \E t \in Tasks, ok \in BOOLEAN : InitializeLoadDone(t, ok)
    \/ \E t \in Tasks, s \in Slots : SwitchToAcquire(t, s)
    \/ \E t \in Tasks, ok \in BOOLEAN : SwitchToLoadDone(t, ok)
    \/ \E t \in Tasks, s \in Slots : GetClientStart(t, s)
    \/ \E t \in Tasks : GetClientAcquire(t)
    \/ \E t \in Tasks, ok \in BOOLEAN : GetClientLoadDone(t, ok)
    \/ \E t \in Tasks : ShutdownStart(t)
    \/ \E t \in Tasks, ok \in BOOLEAN : ShutdownUnloadDone(t, ok)

\* The registry with its callers limited to registration, initialize(),
\* switch_to() and shutdown(): what runs around a shutdown and loads clients.
NextRegistryShutdown ==
    \/ \E t \in Tasks, s \in Slots : RegisterModel(t, s)
    \/ \E t \in Tasks : InitializeStart(t)
    \/ \E t \in Tasks : InitializeAcquire(t)
    \/ \E t \in Tasks, ok \in BOOLEAN : InitializeLoadDone(t, ok)
    \/ \E t \in Tasks, s \in Slots : SwitchToAcquire(t, s)
    \/ \E t \in Tasks, ok \in BOOLEAN : SwitchToLoadDone(t, ok)
    \/ \E t \in Tasks : ShutdownStart(t)
    \/ \E t \in Tasks, ok \in BOOLEAN : ShutdownUnloadDone(t, ok)

-----------------------------------------------------------------------------
(***************************************************************************)
(* IntentRouter: the circuit breaker of _llm_classify                      *)
(***************************************************************************)

CIRCUIT_FAILURE_THRESHOLD == 3
CIRCUIT_COOLDOWN == 300

\* Bounds: the clock advances in steps of TickStep seconds up to MaxTime, and at
\* most MaxFailures load failures are counted.
TickStep == 100
MaxTime == 800
MaxFailures == 5

InitRouter ==
    /\ routerFailureCount = 0
    /\ routerCircuitOpenUntil = 0
    /\ rtNow = 0
    /\ rtRouterPresent \in BOOLEAN
    /\ rtFastPresent \in BOOLEAN
    /\ rtRouterPresent => rtFastPresent   \* the router slot is the fast slot's ModelInfo
    /\ rtLoaded = FALSE
    /\ cpc = [t \in Tasks |-> "idle"]
    /\ rtPath = [t \in Tasks |-> "none"]
    /\ consecFails = 0
    /\ winStart = -1

\* `circuit_open = time.monotonic() < self._router_circuit_open_until`
CircuitOpen == rtNow < routerCircuitOpenUntil

ThresholdReachedOff(n) == n > CIRCUIT_FAILURE_THRESHOLD
\* `if self._router_failure_count >= self._CIRCUIT_FAILURE_THRESHOLD`
ThresholdReached(n) == n >= CIRCUIT_FAILURE_THRESHOLD

\* Falling back to the fast model: generate on it, or return the default result
\* when it is not registered.
FallBackToFast(t, why) ==
    /\ rtPath' = [rtPath EXCEPT ![t] = why]
    /\ cpc' = [cpc EXCEPT ![t] = IF rtFastPresent THEN "generating" ELSE "idle"]

\* _llm_classify up to its first suspension: the circuit check and the choice of
\* the model; an unloaded router model starts a load() attempt.
ClassifyStart(t) ==
    /\ cpc[t] = "idle"
    /\ IF ~rtRouterPresent \/ CircuitOpen
       THEN FallBackToFast(t, IF CircuitOpen THEN "circuit_open" ELSE "no_router")
       ELSE IF ~rtLoaded
            THEN /\ cpc' = [cpc EXCEPT ![t] = "loading"]
                 /\ rtPath' = [rtPath EXCEPT ![t] = "load"]
            ELSE /\ cpc' = [cpc EXCEPT ![t] = "generating"]
                 /\ rtPath' = [rtPath EXCEPT ![t] = "loaded"]
    /\ UNCHANGED <<routerFailureCount, routerCircuitOpenUntil, rtNow, rtRouterPresent,
                   rtFastPresent, rtLoaded, consecFails, winStart>>
    /\ UNCHANGED nonRouterVars

\* router_model.load() returned: the failure counter is reset.
ClassifyLoadOk(t) ==
    /\ cpc[t] = "loading"
    /\ rtLoaded' = TRUE
    /\ routerFailureCount' = 0
    /\ cpc' = [cpc EXCEPT ![t] = "generating"]
    /\ rtPath' = [rtPath EXCEPT ![t] = "load_ok"]
    /\ consecFails' = 0
    /\ UNCHANGED <<routerCircuitOpenUntil, rtNow, rtRouterPresent, rtFastPresent, winStart>>
    /\ UNCHANGED nonRouterVars

\* router_model.load() raised: count the failure, open the circuit at the
\* threshold, and fall back to the fast model for this request.
ClassifyLoadFailed(t) ==
    /\ cpc[t] = "loading"
    /\ routerFailureCount < MaxFailures
    /\ routerFailureCount' = routerFailureCount + 1
    /\ routerCircuitOpenUntil' =
          IF ThresholdReached(routerFailureCount + 1) THEN rtNow + CIRCUIT_COOLDOWN
          ELSE routerCircuitOpenUntil
    /\ FallBackToFast(t, "load_failed")
    /\ consecFails' = consecFails + 1
    /\ winStart' = IF consecFails + 1 >= 3 THEN rtNow ELSE winStart
    /\ UNCHANGED <<rtNow, rtRouterPresent, rtFastPresent, rtLoaded>>
    /\ UNCHANGED nonRouterVars

\* generate() returned or raised: the call returns its IntentResult.
ClassifyGenerateDone(t) ==
    /\ cpc[t] = "generating"
    /\ cpc' = [cpc EXCEPT ![t] = "idle"]
    /\ UNCHANGED <<routerFailureCount, routerCircuitOpenUntil, rtNow, rtRouterPresent,
                   rtFastPresent, rtLoaded, rtPath, consecFails, winStart>>
    /\ UNCHANGED nonRouterVars

\* The router client is unloaded (OllamaClient.unload()).
RouterClientUnload ==
    /\ rtLoaded
    /\ rtLoaded' = FALSE
    /\ UNCHANGED <<routerFailureCount, routerCircuitOpenUntil, rtNow, rtRouterPresent,
                   rtFastPresent, cpc, rtPath, consecFails, winStart>>
    /\ UNCHANGED nonRouterVars

RouterTick ==
    /\ rtNow + TickStep <= MaxTime
    /\ rtNow' = rtNow + TickStep
    /\ UNCHANGED <<routerFailureCount, routerCircuitOpenUntil, rtRouterPresent,
                   rtFastPresent, rtLoaded, cpc, rtPath, consecFails, winStart>>
    /\ UNCHANGED nonRouterVars

NextRouter ==
    \/ \E t \in Tasks : ClassifyStart(t)
    \/ \E t \in Tasks : ClassifyLoadOk(t)
    \/ \E t \in Tasks : ClassifyLoadFailed(t)
    \/ \E t \in Tasks : ClassifyGenerateDone(t)
    \/ RouterClientUnload
    \/ RouterTick

-----------------------------------------------------------------------------
(***************************************************************************)
(* PersonalityManager and PersonalityRepository                            *)
(***************************************************************************)

\* Bounds: fragments created and mutating calls started in one run.
MaxFragments == 2
MaxOps == 3
\* PersonalityConfig.max_fragments_in_prompt and compress_threshold are settings;
\* the model runs with small values of them.
MaxFragmentsInPrompt == 1
CompressThreshold == 1
\* `fragments[:20]` of the compression fallback
COMPRESS_FALLBACK_ITEMS == 20

Contents == {"a", "b"}
FragIds == 1..MaxFragments
NoFrag == [kind |-> "none", status |-> "none", content |-> "none", conf |-> 0, approvedAt |-> FALSE]
NoBlock == [kind |-> "none", items |-> <<>>]
PIdle == [op |-> "none", id |-> 0, snap |-> NoFrag, content |-> "none", items |-> <<>>]

InitPersonality ==
    /\ frags = [f \in FragIds |-> NoFrag]
    /\ nextFrag = 0
    /\ audit = <<>>
    /\ blockCache = NoBlock
    /\ cacheDirty = TRUE
    /\ ppc = [t \in Tasks |-> "idle"]
    /\ ploc = [t \in Tasks |-> PIdle]
    /\ pOps = 0

Min(a, b) == IF a < b THEN a ELSE b

\* get_approved(limit): `WHERE status = 'approved' ORDER BY created_at DESC LIMIT ?`,
\* as the list of the rows' contents (fragment ids grow with created_at).
RECURSIVE ApprovedFrom(_, _)
ApprovedFrom(f, limit) ==
    IF f = 0 \/ limit = 0 THEN <<>>
    ELSE IF frags[f].status = "approved"
         THEN <<frags[f].content>> \o ApprovedFrom(f - 1, limit - 1)
         ELSE ApprovedFrom(f - 1, limit)

GetApproved(limit) == ApprovedFrom(MaxFragments, limit)

Bullets(items, n) == [kind |-> "bullets", items |-> SubSeq(items, 1, Min(n, Len(items)))]

\* The blocks get_personality_block may build from the fetched list `items`
\* (the LLM compression either answers or falls back to a bullet list).
BlocksOf(items) ==
    IF items = <<>> THEN {[kind |-> "placeholder", items |-> <<>>]}
    ELSE IF Len(items) > CompressThreshold
         THEN {[kind |-> "compressed", items |-> items], Bullets(items, COMPRESS_FALLBACK_ITEMS)}
         ELSE {Bullets(items, MaxFragmentsInPrompt)}

\* invalidate_cache() is called after these operations; reject_fragment does not
\* call it, infer_from_conversation calls it for an auto-approved fragment only.
Invalidates(op, status) ==
    op \in {"explicit_stored", "approved", "edited_and_approved", "deleted"}
       \/ (op = "inferred" /\ status = "approved")

\* get_personality_block(force_refresh): a clean cache is returned at once (no
\* state change); otherwise the call suspends in repo.get_approved.
BlockStart(t, force) ==
    /\ ppc[t] = "idle"
    /\ ~(~cacheDirty /\ ~force /\ blockCache # NoBlock)
    /\ ppc' = [ppc EXCEPT ![t] = "block_fetch"]
    /\ UNCHANGED <<frags, nextFrag, audit, blockCache, cacheDirty, ploc, pOps>>
    /\ UNCHANGED nonPersVars

\* get_approved returned (an empty list when the query failed: get_all catches the
\* error).  A placeholder or bullet block is cached at once; a long list suspends
\* in the LLM compression.
BlockFetched(t, ok) ==
    /\ ppc[t] = "block_fetch"
    /\ LET items == IF ok THEN GetApproved(2 * MaxFragmentsInPrompt) ELSE <<>>
       IN IF items # <<>> /\ Len(items) > CompressThreshold
          THEN /\ ppc' = [ppc EXCEPT ![t] = "block_compress"]
               /\ ploc' = [ploc EXCEPT ![t] = [PIdle EXCEPT !.items = items]]
               /\ UNCHANGED <<blockCache, cacheDirty>>
          ELSE /\ blockCache' = CHOOSE b \in BlocksOf(items) : TRUE
               /\ cacheDirty' = FALSE
               /\ ppc' = [ppc EXCEPT ![t] = "idle"]
               /\ UNCHANGED ploc
    /\ UNCHANGED <<frags, nextFrag, audit, pOps>>
    /\ UNCHANGED nonPersVars

\* _compress_fragments returned: the LLM's summary, or the bullet-list fallback.
BlockCompressed(t, ok) ==
    /\ ppc[t] = "block_compress"
    /\ blockCache' = IF ok THEN [kind |-> "compressed", items |-> ploc[t].items]
                     ELSE Bullets(ploc[t].items, COMPRESS_FALLBACK_ITEMS)
    /\ cacheDirty' = FALSE
    /\ ppc' = [ppc EXCEPT ![t] = "idle"]
    /\ ploc' = [ploc EXCEPT ![t] = PIdle]
    /\ UNCHANGED <<frags, nextFrag, audit, pOps>>
    /\ UNCHANGED nonPersVars

\* `auto_approve_threshold` = 0.85, confidences in hundredths
AUTO_APPROVE_THRESHOLD == 85
\* Confidences the inference reports for a kept candidate (>= 0.5).
InferredConfs == {60, 90}

\* _decide_initial_status with auto_approve_enabled and
\* `not inferential_learning_requires_approval` given as `auto`.
DecideInitialStatus(conf, auto) ==
    IF auto /\ conf >= AUTO_APPROVE_THRESHOLD THEN "approved" ELSE "pending"

\* create_fragment: the INSERT names no approved_at column.
NewFragment(kind, status, content, conf) ==
    [kind |-> kind, status |-> status, content |-> content, conf |-> conf, approvedAt |-> FALSE]

\* store_explicit: repo.create_fragment(explicit, approved, 1.0) has inserted the
\* row; write_audit and invalidate_cache follow in MutationAudit.
StoreExplicitCreate(t, content) ==
    /\ ppc[t] = "idle"
    /\ nextFrag < MaxFragments /\ pOps < MaxOps
    /\ frags' = [frags EXCEPT ![nextFrag + 1] = NewFragment("explicit", "approved", content, 100)]
    /\ nextFrag' = nextFrag + 1
    /\ pOps' = pOps + 1
    /\ ppc' = [ppc EXCEPT ![t] = "written"]
    /\ ploc' = [ploc EXCEPT ![t] = [PIdle EXCEPT !.op = "explicit_stored", !.id = nextFrag + 1,
                                     !.snap = NewFragment("explicit", "approved", content, 100),
                                     !.content = content]]
    /\ UNCHANGED <<audit, blockCache, cacheDirty>>
    /\ UNCHANGED nonPersVars

\* infer_from_conversation: one surviving candidate has been inserted with the
\* status the auto-approve policy gives it.
InferCreate(t, content, conf, auto) ==
    /\ ppc[t] = "idle"
    /\ nextFrag < MaxFragments /\ pOps < MaxOps
    /\ LET fr == NewFragment("inferred", DecideInitialStatus(conf, auto), content, conf)
       IN /\ frags' = [frags EXCEPT ![nextFrag + 1] = fr]
          /\ ploc' = [ploc EXCEPT ![t] = [PIdle EXCEPT !.op = "inferred", !.id = nextFrag + 1,
                                           !.snap = fr, !.content = content]]
    /\ nextFrag' = nextFrag + 1
    /\ pOps' = pOps + 1
    /\ ppc' = [ppc EXCEPT ![t] = "written"]
    /\ UNCHANGED <<audit, blockCache, cacheDirty>>
    /\ UNCHANGED nonPersVars

\* approve_fragment / reject_fragment / edit_and_approve / delete_fragment up to
\* the first write: repo.get_by_id found the row and its dict is kept.
MutationFetch(t, op, f, content) ==
    /\ ppc[t] = "idle"
    /\ pOps < MaxOps
    /\ op \in {"approved", "rejected", "edited_and_approved", "deleted"}
    /\ frags[f] # NoFrag
    /\ content = IF op = "edited_and_approved" THEN content ELSE frags[f].content
    /\ pOps' = pOps + 1
    /\ ppc' = [ppc EXCEPT ![t] = "fetched"]
    /\ ploc' = [ploc EXCEPT ![t] = [PIdle EXCEPT !.op = op, !.id = f, !.snap = frags[f],
                                     !.content = content]]
    /\ UNCHANGED <<frags, nextFrag, audit, blockCache, cacheDirty>>
    /\ UNCHANGED nonPersVars

\* update_fragment / delete_fragment: `UPDATE ... WHERE fragment_id = ?` or
\* `DELETE ... WHERE fragment_id = ?` on the row as it is now (no row: nothing
\* changes and the call still returns True).
WriteRow(row, op, content) ==
    IF row = NoFrag \/ op = "deleted" THEN NoFrag
    ELSE IF op = "approved" THEN [row EXCEPT !.status = "approved", !.approvedAt = TRUE]
    ELSE IF op = "rejected" THEN [row EXCEPT !.status = "rejected"]
    ELSE [row EXCEPT !.content = content, !.status = "approved", !.approvedAt = TRUE]

\* The repository write returned True (ok) or caught a database error and
\* returned False, which ends the call.
MutationWrite(t, ok) ==
    /\ ppc[t] = "fetched"
    /\ IF ok
       THEN /\ frags' = [frags EXCEPT ![ploc[t].id] = WriteRow(@, ploc[t].op, ploc[t].content)]
            /\ ppc' = [ppc EXCEPT ![t] = "written"]
            /\ UNCHANGED ploc
       ELSE /\ ppc' = [ppc EXCEPT ![t] = "idle"]
            /\ ploc' = [ploc EXCEPT ![t] = PIdle]
            /\ UNCHANGED frags
    /\ UNCHANGED <<nextFrag, audit, blockCache, cacheDirty, pOps>>
    /\ UNCHANGED nonPersVars

AuditEntry(l) ==
    [fid |-> l.id, action |-> l.op, oldStatus |-> IF l.op \in {"explicit_stored", "inferred"}
                                                  THEN "none" ELSE l.snap.status,
     newContent |-> IF l.op = "deleted" THEN "none" ELSE l.content]

\* write_audit has inserted the audit row, or its INSERT raised: write_audit
\* catches that and logs a warning.  invalidate_cache() runs for the operations
\* that call it and the call returns.
MutationAudit(t, ok) ==
    /\ ppc[t] = "written"
    /\ audit' = IF ok THEN Append(audit, AuditEntry(ploc[t])) ELSE audit
    /\ IF Invalidates(ploc[t].op, ploc[t].snap.status)
       THEN blockCache' = NoBlock /\ cacheDirty' = TRUE
       ELSE UNCHANGED <<blockCache, cacheDirty>>
    /\ ppc' = [ppc EXCEPT ![t] = "idle"]
    /\ ploc' = [ploc EXCEPT ![t] = PIdle]
    /\ UNCHANGED <<frags, nextFrag, pOps>>
    /\ UNCHANGED nonPersVars

\* PUT /personality/{id} with approve = False: the route calls
\* repo.update_fragment(content = ...) itself; the UPDATE has run (on no row:
\* nothing changes) or failed, and nothing else is written.
EditOnly(t, f, content, ok) ==
    /\ ppc[t] = "idle"
    /\ pOps < MaxOps
    /\ frags' = IF ok /\ frags[f] # NoFrag THEN [frags EXCEPT ![f].content = content] ELSE frags
    /\ pOps' = pOps + 1
    /\ UNCHANGED <<nextFrag, audit, blockCache, cacheDirty, ppc, ploc>>
    /\ UNCHANGED nonPersVars

NextPersonality ==
    \/ \E t \in Tasks, force \in BOOLEAN : BlockStart(t, force)
    \/ \E t \in Tasks, ok \in BOOLEAN : BlockFetched(t, ok)
    \/ \E t \in Tasks, ok \in BOOLEAN : BlockCompressed(t, ok)
    \/ \E t \in Tasks, c \in Contents : StoreExplicitCreate(t, c)
    \/ \E t \in Tasks, c \in Contents, conf \in InferredConfs, auto \in BOOLEAN :
          InferCreate(t, c, conf, auto)
    \/ \E t \in Tasks, f \in FragIds, c \in Contents,
          op \in {"approved", "rejected", "edited_and_approved", "deleted"} :
          MutationFetch(t, op, f, c)
    \/ \E t \in Tasks, ok \in BOOLEAN : MutationWrite(t, ok)
    \/ \E t \in Tasks, ok \in BOOLEAN : MutationAudit(t, ok)
    \/ \E t \in Tasks, f \in FragIds, c \in Contents, ok \in BOOLEAN : EditOnly(t, f, c, ok)

-----------------------------------------------------------------------------
(***************************************************************************)
(* TelemetryCollector                                                      *)
(*                                                                         *)
(* _buffer_lock is only ever held across code that does not await, so it   *)
(* is never contended: record_metric's append and _flush_buffer's          *)
(* copy-and-clear are each one step.                                       *)
(***************************************************************************)

\* Bound: metric points recorded in one run.
MaxMetrics == 3

InitTelemetry ==
    /\ tEnabled \in BOOLEAN
    /\ tRepo = FALSE
    /\ tInitialized = FALSE
    /\ tBuffer = <<>>
    /\ tStored = <<>>
    /\ tNext = 0
    /\ flushTask = "none"
    /\ loopBatch = <<>>
    /\ tsd = "idle"
    /\ sdBatch = <<>>

\* initialize(): sets _repo and, when telemetry is enabled, starts _flush_loop.
TelemetryInitialize ==
    /\ ~tInitialized
    /\ tRepo' = TRUE
    /\ flushTask' = IF tEnabled THEN "sleeping" ELSE flushTask
    /\ tInitialized' = TRUE
    /\ UNCHANGED <<tEnabled, tBuffer, tStored, tNext, loopBatch, tsd, sdBatch>>
    /\ UNCHANGED nonTelVars

\* record_metric: returns at once when telemetry is disabled, else appends the
\* point to _buffer.
RecordMetric ==
    /\ tNext < MaxMetrics
    /\ IF tEnabled
       THEN /\ tBuffer' = Append(tBuffer, tNext + 1)
            /\ tNext' = tNext + 1
       ELSE UNCHANGED <<tBuffer, tNext>>
    /\ UNCHANGED <<tEnabled, tRepo, tInitialized, tStored, flushTask, loopBatch, tsd, sdBatch>>
    /\ UNCHANGED nonTelVars

\* _flush_loop wakes from its sleep and runs _flush_buffer up to the bulk insert:
\* an empty buffer returns at once, otherwise the buffer is swapped out.
FlushWake ==
    /\ flushTask = "sleeping" /\ tsd # "await_task"
    /\ IF tBuffer = <<>>
       THEN UNCHANGED <<tBuffer, loopBatch, flushTask>>
       ELSE /\ loopBatch' = tBuffer
            /\ tBuffer' = <<>>
            /\ flushTask' = "inserting"
    /\ UNCHANGED <<tEnabled, tRepo, tInitialized, tStored, tNext, tsd, sdBatch>>
    /\ UNCHANGED nonTelVars

\* execute_many returned (rows committed) or raised; the exception is logged as a
\* warning and the swapped-out points are gone.  The loop sleeps again.
FlushInsertDone(ok) ==
    /\ flushTask = "inserting" /\ tsd # "await_task"
    /\ tStored' = IF ok THEN tStored \o loopBatch ELSE tStored
    /\ loopBatch' = <<>>
    /\ flushTask' = "sleeping"
    /\ UNCHANGED <<tEnabled, tRepo, tInitialized, tBuffer, tNext, tsd, sdBatch>>
    /\ UNCHANGED nonTelVars

\* The final _flush_buffer of shutdown(), up to its bulk insert.
FinalFlush ==
    IF ~tRepo \/ tBuffer = <<>>
    THEN /\ tInitialized' = FALSE
         /\ tsd' = "idle"
         /\ UNCHANGED <<tBuffer, sdBatch>>
    ELSE /\ sdBatch' = tBuffer
         /\ tBuffer' = <<>>
         /\ tsd' = "final_insert"
         /\ UNCHANGED tInitialized

\* shutdown(): cancels a running flush task and waits for it; with no running
\* task it goes straight to the final flush.
TelemetryShutdownStart ==
    /\ tsd = "idle"
    /\ IF flushTask \in {"sleeping", "inserting"}
       THEN /\ tsd' = "await_task"
            /\ UNCHANGED <<tInitialized, tBuffer, sdBatch>>
       ELSE FinalFlush
    /\ UNCHANGED <<tEnabled, tRepo, tStored, tNext, flushTask, loopBatch>>
    /\ UNCHANGED nonTelVars

\* CancelledError reaches _flush_loop: in its sleep, or inside execute_many, where
\* `except Exception` does not catch it; the batch being inserted is committed
\* only if the commit had already gone through.
FlushTaskCancelled(committed) ==
    /\ tsd = "await_task" /\ flushTask \in {"sleeping", "inserting"}
    /\ tStored' = IF flushTask = "inserting" /\ committed THEN tStored \o loopBatch ELSE tStored
    /\ loopBatch' = <<>>
    /\ flushTask' = "done"
    /\ UNCHANGED <<tEnabled, tRepo, tInitialized, tBuffer, tNext, tsd, sdBatch>>
    /\ UNCHANGED nonTelVars

\* shutdown() resumes after the cancelled task has finished.
TelemetryShutdownResume ==
    /\ tsd = "await_task" /\ flushTask = "done"
    /\ FinalFlush
    /\ UNCHANGED <<tEnabled, tRepo, tStored, tNext, flushTask, loopBatch>>
    /\ UNCHANGED nonTelVars

\* The final bulk insert returned or raised (logged, points gone); shutdown ends.
TelemetryShutdownInsertDone(ok) ==
    /\ tsd = "final_insert"
    /\ tStored' = IF ok THEN tStored \o sdBatch ELSE tStored
    /\ sdBatch' = <<>>
    /\ tInitialized' = FALSE
    /\ tsd' = "idle"
    /\ UNCHANGED <<tEnabled, tRepo, tBuffer, tNext, flushTask, loopBatch>>
    /\ UNCHANGED nonTelVars

NextTelemetry ==
    \/ TelemetryInitialize
    \/ RecordMetric
    \/ FlushWake
    \/ \E ok \in BOOLEAN : FlushInsertDone(ok)
    \/ TelemetryShutdownStart
    \/ \E committed \in BOOLEAN : FlushTaskCancelled(committed)
    \/ TelemetryShutdownResume
    \/ \E ok \in BOOLEAN : TelemetryShutdownInsertDone(ok)

-----------------------------------------------------------------------------
(***************************************************************************)
(* OllamaProcessManager                                                    *)
(***************************************************************************)

\* Bound: child processes spawned in one run.
MaxChildren == 2

\* Process 0 is a backend started outside this manager; 1..MaxChildren are the
\* children create_subprocess_exec returns.
ExternalBackend == 0
NoProcess == -1
Pids == 0..MaxChildren
Children == 1..MaxChildren

InitOllamaManager ==
    /\ omManage \in BOOLEAN
    /\ omProcess = NoProcess
    /\ omWeStarted = FALSE
    /\ procs = [p \in Pids |-> "unborn"]
    /\ omNext = 0
    /\ omTerminated = {}
    /\ opc = [t \in Tasks |-> "idle"]
    /\ oloc = [t \in Tasks |-> NoProcess]
    /\ ores = [t \in Tasks |-> "none"]

Alive(p) == procs[p] \in {"starting", "ready"}

\* _is_running(base_url): some process answers GET /api/tags.
IsRunning == \E p \in Pids : procs[p] = "ready"

\* A call returns: "already running" / "started" are ensure_running's successes,
\* "failed" any of its (False, message) returns, "error" an exception out of it;
\* "noop" / "stopped" are shutdown's guard return and its return after `finally`.
OmReturn(t, result) ==
    /\ opc' = [opc EXCEPT ![t] = "idle"]
    /\ ores' = [ores EXCEPT ![t] = result]

\* ensure_running: suspends in the first _is_running probe.
EnsureStart(t) ==
    /\ opc[t] = "idle"
    /\ opc' = [opc EXCEPT ![t] = "probe"]
    /\ UNCHANGED <<omManage, omProcess, omWeStarted, procs, omNext, omTerminated, oloc, ores>>
    /\ UNCHANGED nonOmVars

\* The probe answered: the fast path, the manage=False and binary-not-found
\* returns, or on to create_subprocess_exec.
EnsureProbed(t, binary) ==
    /\ opc[t] = "probe"
    /\ IF IsRunning THEN OmReturn(t, "already running")
       ELSE IF ~omManage THEN OmReturn(t, "failed")
       ELSE IF ~binary THEN OmReturn(t, "failed")
       ELSE opc' = [opc EXCEPT ![t] = "spawning"] /\ UNCHANGED ores
    /\ UNCHANGED <<omManage, omProcess, omWeStarted, procs, omNext, omTerminated, oloc>>
    /\ UNCHANGED nonOmVars

\* create_subprocess_exec returned a new child (stored in _process, _we_started
\* set) or raised.
EnsureSpawned(t, ok) ==
    /\ opc[t] = "spawning"
    /\ IF ok /\ omNext < MaxChildren
       THEN /\ procs' = [procs EXCEPT ![omNext + 1] = "starting"]
            /\ omProcess' = omNext + 1
            /\ omWeStarted' = TRUE
            /\ omNext' = omNext + 1
            /\ opc' = [opc EXCEPT ![t] = "waiting"]
            /\ UNCHANGED ores
       ELSE /\ OmReturn(t, "failed")
            /\ UNCHANGED <<procs, omProcess, omWeStarted, omNext>>
    /\ UNCHANGED <<omManage, omTerminated, oloc>>
    /\ UNCHANGED nonOmVars

\* One round of the readiness loop (sleep, probe, returncode check, deadline
\* check).  `self._process.returncode` reads _process as it is now: None after a
\* shutdown() raises AttributeError out of the call.
EnsurePoll(t, timedOut) ==
    /\ opc[t] = "waiting"
    /\ IF IsRunning THEN OmReturn(t, "started")
       ELSE IF omProcess = NoProcess THEN OmReturn(t, "error")
       ELSE IF procs[omProcess] = "exited" THEN OmReturn(t, "failed")
       ELSE IF timedOut THEN OmReturn(t, "failed")
       ELSE UNCHANGED <<opc, ores>>
    /\ UNCHANGED <<omManage, omProcess, omWeStarted, procs, omNext, omTerminated, oloc>>
    /\ UNCHANGED nonOmVars

\* A shutdown that would signal whichever process serves the base URL.
ShutdownTargetServing == IF IsRunning THEN CHOOSE p \in Pids : procs[p] = "ready" ELSE omProcess
\* The process shutdown() signals: self._process.
ShutdownTarget == omProcess

\* shutdown(): returns at the guard, or calls terminate() (ProcessLookupError on
\* a child that is gone, caught, _process and _we_started reset) and suspends in
\* wait().
OmShutdownStart(t) ==
    /\ opc[t] = "idle"
    /\ IF ~omWeStarted \/ omProcess = NoProcess
       THEN /\ OmReturn(t, "noop")
            /\ UNCHANGED <<omProcess, omWeStarted, omTerminated, oloc>>
       ELSE IF ~Alive(ShutdownTarget)
       THEN /\ OmReturn(t, "stopped")
            /\ omProcess' = NoProcess
            /\ omWeStarted' = FALSE
            /\ UNCHANGED <<omTerminated, oloc>>
       ELSE /\ omTerminated' = omTerminated \cup {ShutdownTarget}
            /\ oloc' = [oloc EXCEPT ![t] = ShutdownTarget]
            /\ opc' = [opc EXCEPT ![t] = "sd_wait"]
            /\ UNCHANGED <<omProcess, omWeStarted, ores>>
    /\ UNCHANGED <<omManage, procs, omNext>>
    /\ UNCHANGED nonOmVars

\* wait() returned within 10 s (the signalled process has exited), or timed out
\* and `self._process.kill()` hits whatever _process is now; `finally` resets
\* _process and _we_started.
OmShutdownWaited(t, inTime) ==
    /\ opc[t] = "sd_wait"
    /\ IF inTime \/ ~Alive(oloc[t])
       THEN /\ procs' = [procs EXCEPT ![oloc[t]] = "exited"]
            /\ UNCHANGED omTerminated
       ELSE IF ShutdownTarget # NoProcess /\ Alive(ShutdownTarget)
       THEN /\ procs' = [procs EXCEPT ![ShutdownTarget] = "exited"]
            /\ omTerminated' = omTerminated \cup {ShutdownTarget}
       ELSE UNCHANGED <<procs, omTerminated>>
    /\ omProcess' = NoProcess
    /\ omWeStarted' = FALSE
    /\ oloc' = [oloc EXCEPT ![t] = NoProcess]
    /\ OmReturn(t, "stopped")
    /\ UNCHANGED <<omManage, omNext>>
    /\ UNCHANGED nonOmVars

\* Environment: a starting child begins to serve (the port is free).
ChildReady(c) ==
    /\ procs[c] = "starting" /\ ~IsRunning
    /\ procs' = [procs EXCEPT ![c] = "ready"]
    /\ UNCHANGED <<omManage, omProcess, omWeStarted, omNext, omTerminated, opc, oloc, ores>>
    /\ UNCHANGED nonOmVars

\* Environment: a process exits on its own (a crash, or the user stops it; an
\* external backend that is gone is as good as never started).
ProcessExits(p) ==
    /\ Alive(p)
    /\ procs' = [procs EXCEPT ![p] = IF p = ExternalBackend THEN "unborn" ELSE "exited"]
    /\ UNCHANGED <<omManage, omProcess, omWeStarted, omNext, omTerminated, opc, oloc, ores>>
    /\ UNCHANGED nonOmVars

\* Environment: the user starts the backend outside this manager.
ExternalStarts ==
    /\ ~Alive(ExternalBackend) /\ ~IsRunning
    /\ procs' = [procs EXCEPT ![ExternalBackend] = "ready"]
    /\ UNCHANGED <<omManage, omProcess, omWeStarted, omNext, omTerminated, opc, oloc, ores>>
    /\ UNCHANGED nonOmVars

NextOllamaManager ==
    \/ \E t \in Tasks : EnsureStart(t)
    \/ \E t \in Tasks, binary \in BOOLEAN : EnsureProbed(t, binary)
    \/ \E t \in Tasks, ok \in BOOLEAN : EnsureSpawned(t, ok)
    \/ \E t \in Tasks, timedOut \in BOOLEAN : EnsurePoll(t, timedOut)
    \/ \E t \in Tasks : OmShutdownStart(t)
    \/ \E t \in Tasks, inTime \in BOOLEAN : OmShutdownWaited(t, inTime)
    \/ \E c \in Children : ChildReady(c)
    \/ \E p \in Pids : ProcessExits(p)
    \/ ExternalStarts

-----------------------------------------------------------------------------
(***************************************************************************)
(* Short-term memory: the in-memory ShortTermMemory buffer used by          *)
(* MemoryManager, and the memory_short_term table used by the orchestrator  *)
(* through ShortTermMemoryRepository.  Every operation is one step: the     *)
(* in-memory methods never suspend, and each repository method is a single  *)
(* SQL statement.                                                           *)
(***************************************************************************)

\* `max_messages` and `expire_after` are settings; the model runs with small
\* values of them (time in ticks).
MaxMessages == 2
ExpireAfter == 2
\* Bounds: clock ticks and messages added in one run.
MaxClock == 3
MaxAdds == 3

Sessions == {"s1", "s2"}

InitShortTerm ==
    /\ stNow = 0
    /\ stBuffer = <<>>
    /\ stRows = <<>>
    /\ stNextId = 0
    /\ stRead = [kind |-> "none", session |-> "none", at |-> 0, items |-> <<>>]

\* _cleanup_expired: keeps the items with expires_at > now.
CleanupExpired(buf, now) == SelectSeq(buf, LAMBDA i : i.expiresAt > now)

EvictNewest(buf) == SubSeq(buf, 1, Len(buf) - 1)
\* `self.buffer.pop(0)`
EvictOldest(buf) == Tail(buf)

BufferPrepend(buf, item) == <<item>> \o buf
\* `self.buffer.append(item)`
BufferAppend(buf, item) == Append(buf, item)

\* ShortTermMemory.add: append, drop the expired, pop the oldest when over
\* max_messages.
MemAdd ==
    /\ stNextId < MaxAdds
    /\ LET item == [id |-> stNextId + 1, expiresAt |-> stNow + ExpireAfter]
           kept == CleanupExpired(BufferAppend(stBuffer, item), stNow)
       IN stBuffer' = IF Len(kept) > MaxMessages THEN EvictOldest(kept) ELSE kept
    /\ stNextId' = stNextId + 1
    /\ UNCHANGED <<stNow, stRows, stRead>>
    /\ UNCHANGED nonStVars

\* ShortTermMemory.get_all: drop the expired, return a copy of the buffer.
MemGetAll ==
    /\ stBuffer' = CleanupExpired(stBuffer, stNow)
    /\ stRead' = [kind |-> "mem", session |-> "none", at |-> stNow,
                  items |-> CleanupExpired(stBuffer, stNow)]
    /\ UNCHANGED <<stNow, stRows, stNextId>>
    /\ UNCHANGED nonStVars

\* ShortTermMemory.clear
MemClear ==
    /\ stBuffer' = <<>>
    /\ UNCHANGED <<stNow, stRows, stNextId, stRead>>
    /\ UNCHANGED nonStVars

\* add_message: one INSERT, timestamp = datetime.now().
RepoAddMessage(s) ==
    /\ stNextId < MaxAdds
    /\ stRows' = Append(stRows, [session |-> s, id |-> stNextId + 1, ts |-> stNow])
    /\ stNextId' = stNextId + 1
    /\ UNCHANGED <<stNow, stBuffer, stRead>>
    /\ UNCHANGED nonStVars

SessionRows(s) == SelectSeq(stRows, LAMBDA r : r.session = s)

\* A row as a short-term item: it expires expire_after after its timestamp (the
\* cutoff cleanup_expired uses).
RowItem(r) == [id |-> r.id, expiresAt |-> r.ts + ExpireAfter]

\* get_session_buffer: `WHERE session_id = ? ORDER BY timestamp ASC LIMIT ?`.
GetSessionBuffer(s, limit) ==
    LET rows == SessionRows(s)
        n == IF Len(rows) < limit THEN Len(rows) ELSE limit
    IN [i \in 1..n |-> RowItem(rows[i])]

\* Sena._retrieve_memory reads the session buffer with limit = max_messages.
RepoGetSessionBuffer(s) ==
    /\ stRead' = [kind |-> "repo", session |-> s, at |-> stNow,
                  items |-> GetSessionBuffer(s, MaxMessages)]
    /\ UNCHANGED <<stNow, stBuffer, stRows, stNextId>>
    /\ UNCHANGED nonStVars

\* clear_session: `DELETE ... WHERE session_id = ?`.
RepoClearSession(s) ==
    /\ stRows' = SelectSeq(stRows, LAMBDA r : r.session # s)
    /\ UNCHANGED <<stNow, stBuffer, stNextId, stRead>>
    /\ UNCHANGED nonStVars

\* Time passes.
StTick ==
    /\ stNow < MaxClock
    /\ stNow' = stNow + 1
    /\ UNCHANGED <<stBuffer, stRows, stNextId, stRead>>
    /\ UNCHANGED nonStVars

NextShortTerm ==
    \/ MemAdd
    \/ MemGetAll
    \/ MemClear
    \/ \E s \in Sessions : RepoAddMessage(s)
    \/ \E s \in Sessions : RepoGetSessionBuffer(s)
    \/ \E s \in Sessions : RepoClearSession(s)
    \/ StTick

-----------------------------------------------------------------------------
(***************************************************************************)
(* Orchestrator pipeline: Sena.process / Sena.stream as the chat routes     *)
(* call them, and Sena.process(stream=True) as a direct caller may.  The    *)
(* stage and token callbacks are taken not to raise.  The logs record what  *)
(* was appended (capacity and expiry are SpecShortTerm's).                  *)
(***************************************************************************)

\* Two requests of one session, which may overlap.
Reqs == {1, 2}

\* ProcessingContext.__init__, before the request is received.
NewReq == [pc |-> "new", via |-> "none", stage |-> "receiving", needsExt |-> FALSE,
           degraded |-> FALSE, gen |-> "none", persist |-> "none", out |-> "none"]

InitPipeline ==
    /\ req = [r \in Reqs |-> NewReq]
    /\ convLog = <<>>
    /\ repoLog = <<>>
    /\ ctxLog = <<>>
    /\ errorCount = 0
    /\ metricsFor = {}

Msg(r, role) == [req |-> r, role |-> role]

\* The chat route appends to the in-memory context around sena.process; the
\* stream route appends only the user message, before streaming.
RouteAdd(log, r, via, role) ==
    IF via = "chat" \/ (via = "stream" /\ role = "user") THEN Append(log, Msg(r, role)) ELSE log

\* chat / stream_chat up to the first suspension of the orchestrator: the user
\* message goes to the in-memory context (skipped by chat when memory_mgr.remember
\* raised first), the stage becomes INTENT_CLASSIFICATION, classify_intent runs.
ProcessStart(r, via, userAdded) ==
    /\ req[r].pc = "new"
    /\ via \in {"chat", "stream", "direct"}
    /\ userAdded \/ via = "chat"
    /\ ctxLog' = IF userAdded THEN RouteAdd(ctxLog, r, via, "user") ELSE ctxLog
    /\ req' = [req EXCEPT ![r] = [@ EXCEPT !.pc = "classify", !.via = via,
                                           !.stage = "intent_classification"]]
    /\ UNCHANGED <<convLog, repoLog, errorCount, metricsFor>>
    /\ UNCHANGED nonPlVars

GenerationStage(via) == IF via = "chat" THEN "llm_processing" ELSE "llm_streaming"

\* The next stage after classification / memory retrieval / extensions.
Advance(rec, needsMemory, needsExt) ==
    IF needsMemory THEN [rec EXCEPT !.pc = "memory", !.stage = "memory_retrieval"]
    ELSE IF needsExt THEN [rec EXCEPT !.pc = "extensions", !.stage = "extension_execution"]
    ELSE [rec EXCEPT !.pc = "generate",
                     \* process(stream=True) sets no stage for its generation
                     !.stage = IF rec.via = "direct" THEN @ ELSE GenerationStage(rec.via)]

CountErrorNot(n) == n
\* `self._error_counts[error_type] = self._error_counts.get(error_type, 0) + 1`
CountError(n) == n + 1

\* `except Exception`: stage ERROR, error_handler.handle(reraise=True), raise; the
\* chat route catches it and stores its fallback reply as the assistant message.
Fail(r, gen) ==
    /\ req' = [req EXCEPT ![r] = [@ EXCEPT !.pc = "done", !.stage = "error", !.out = "raised",
                                           !.gen = gen]]
    /\ errorCount' = CountError(errorCount)
    /\ ctxLog' = IF req[r].via = "chat" THEN RouteAdd(ctxLog, r, "chat", "assistant") ELSE ctxLog
    /\ UNCHANGED metricsFor

RecordMetricsNot(done, r) == done
\* _record_metrics: the request's duration and counters go to telemetry.
RecordMetrics(done, r) == done \cup {r}

\* Stage COMPLETE, _record_metrics, return; the chat route then stores the reply.
Complete(r, gen, persist) ==
    /\ req' = [req EXCEPT ![r] = [@ EXCEPT !.pc = "done", !.stage = "complete",
                                           !.out = "returned", !.gen = gen, !.persist = persist]]
    /\ metricsFor' = RecordMetrics(metricsFor, r)
    /\ ctxLog' = RouteAdd(ctxLog, r, req[r].via, "assistant")
    /\ UNCHANGED errorCount

PersistFailedRaises(r, persist) ==
    /\ req' = [req EXCEPT ![r] = [@ EXCEPT !.pc = "done", !.stage = "error", !.out = "raised",
                                           !.gen = "ok", !.persist = persist]]
    /\ errorCount' = CountError(errorCount)
    /\ ctxLog' = RouteAdd(ctxLog, r, req[r].via, "assistant")
    /\ UNCHANGED metricsFor
\* `except Exception as e: logger.warning(...)` around the persistence block:
\* the failure is logged and the rest of process / stream runs as usual.
PersistFailed(r, persist) == Complete(r, "ok", persist)

\* classify_intent returned (or raised).
Classified(r, ok, needsMemory, needsExt) ==
    /\ req[r].pc = "classify"
    /\ IF ok
       THEN /\ req' = [req EXCEPT ![r] = Advance([@ EXCEPT !.needsExt = needsExt],
                                                 needsMemory, needsExt)]
            /\ UNCHANGED <<ctxLog, errorCount, metricsFor>>
       ELSE Fail(r, "none")
    /\ UNCHANGED <<convLog, repoLog>>
    /\ UNCHANGED nonPlVars

\* _retrieve_memory returned: a failure inside it is caught and logged, the
\* context is what had been gathered.
MemoryRetrieved(r, ok) ==
    /\ req[r].pc = "memory"
    /\ req' = [req EXCEPT ![r] = Advance([@ EXCEPT !.degraded = @ \/ ~ok], FALSE, @.needsExt)]
    /\ UNCHANGED <<convLog, repoLog, ctxLog, errorCount, metricsFor>>
    /\ UNCHANGED nonPlVars

\* _execute_extensions returned: a failing extension is recorded as an error
\* result and left out of the context.
ExtensionsExecuted(r, ok) ==
    /\ req[r].pc = "extensions"
    /\ req' = [req EXCEPT ![r] = Advance([@ EXCEPT !.degraded = @ \/ ~ok], FALSE, FALSE)]
    /\ UNCHANGED <<convLog, repoLog, ctxLog, errorCount, metricsFor>>
    /\ UNCHANGED nonPlVars

\* Generation returned a response, raised, or (streaming only) ended without a
\* final chunk, so that ctx.response stays None and _post_process returns at once.
\* With a response _post_process starts and suspends in conversation_repo.create.
Generated(r, outcome) ==
    /\ req[r].pc = "generate"
    /\ outcome \in {"ok", "failed", "no_response"}
    /\ outcome = "no_response" => req[r].via \in {"stream", "direct"}
    /\ IF outcome = "ok"
       THEN /\ req' = [req EXCEPT ![r] = [@ EXCEPT !.pc = "post_conv", !.gen = "ok",
                                                   !.stage = "post_processing"]]
            /\ UNCHANGED <<ctxLog, errorCount, metricsFor>>
       ELSE IF outcome = "failed" THEN Fail(r, "failed")
       ELSE IF req[r].via = "direct"
       THEN \* process: stage COMPLETE, then the await of the stage callback
            /\ req' = [req EXCEPT ![r] = [@ EXCEPT !.pc = "completing", !.stage = "complete",
                                                   !.gen = "no_response"]]
            /\ UNCHANGED <<ctxLog, errorCount, metricsFor>>
       ELSE Complete(r, "no_response", "none")
    /\ UNCHANGED <<convLog, repoLog>>
    /\ UNCHANGED nonPlVars

\* process with no response, after the COMPLETE notification: _record_metrics,
\* then `if ctx.response is None: raise LLMGenerationError`, which the
\* `except Exception` of process turns into stage ERROR.
CompletionChecked(r) ==
    /\ req[r].pc = "completing"
    /\ metricsFor' = RecordMetrics(metricsFor, r)
    /\ req' = [req EXCEPT ![r] = [@ EXCEPT !.pc = "done", !.stage = "error", !.out = "raised"]]
    /\ errorCount' = CountError(errorCount)
    /\ UNCHANGED <<convLog, repoLog, ctxLog>>
    /\ UNCHANGED nonPlVars

ConvInsertTwice(log, r) == Append(Append(log, r), r)
\* `await self._conversation_repo.create(conversation)`
ConvInsert(log, r) == Append(log, r)

PostRolesSwapped == <<"assistant", "user">>
\* The two add_message calls of _post_process, in the order they are made.
PostRoles == <<"user", "assistant">>

\* conversation_repo.create returned, or raised: the exception is caught by the
\* `except Exception` around the whole block, which skips the short-term adds.
PostConvDone(r, ok) ==
    /\ req[r].pc = "post_conv"
    /\ IF ok
       THEN /\ convLog' = ConvInsert(convLog, r)
            /\ req' = [req EXCEPT ![r] = [@ EXCEPT !.pc = "post_user"]]
            /\ UNCHANGED <<ctxLog, errorCount, metricsFor>>
       ELSE /\ PersistFailed(r, "conv_failed")
            /\ UNCHANGED convLog
    /\ UNCHANGED repoLog
    /\ UNCHANGED nonPlVars

\* The first add_message (role user) returned or raised.
PostUserDone(r, ok) ==
    /\ req[r].pc = "post_user"
    /\ IF ok
       THEN /\ repoLog' = Append(repoLog, Msg(r, PostRoles[1]))
            /\ req' = [req EXCEPT ![r] = [@ EXCEPT !.pc = "post_asst"]]
            /\ UNCHANGED <<ctxLog, errorCount, metricsFor>>
       ELSE /\ PersistFailed(r, "user_failed")
            /\ UNCHANGED repoLog
    /\ UNCHANGED convLog
    /\ UNCHANGED nonPlVars

\* The second add_message (role assistant) returned or raised; the request
\* completes either way.
PostAsstDone(r, ok) ==
    /\ req[r].pc = "post_asst"
    /\ repoLog' = IF ok THEN Append(repoLog, Msg(r, PostRoles[2])) ELSE repoLog
    /\ IF ok THEN Complete(r, "ok", "ok") ELSE PersistFailed(r, "assistant_failed")
    /\ UNCHANGED convLog
    /\ UNCHANGED nonPlVars

\* The request's task is cancelled at the await it is suspended in:
\* CancelledError is not an Exception, so neither the orchestrator's nor the
\* route's handler runs.  An insert that was in flight may have been committed.
Cancel(r, committed) ==
    /\ req[r].pc \in {"classify", "memory", "extensions", "generate",
                      "post_conv", "post_user", "post_asst", "completing"}
    /\ committed => req[r].pc \in {"post_conv", "post_user", "post_asst"}
    /\ convLog' = IF committed /\ req[r].pc = "post_conv" THEN ConvInsert(convLog, r) ELSE convLog
    /\ repoLog' = IF committed /\ req[r].pc = "post_user" THEN Append(repoLog, Msg(r, PostRoles[1]))
                  ELSE IF committed /\ req[r].pc = "post_asst"
                       THEN Append(repoLog, Msg(r, PostRoles[2]))
                  ELSE repoLog
    /\ req' = [req EXCEPT ![r] = [@ EXCEPT !.pc = "done", !.out = "cancelled"]]
    /\ UNCHANGED <<ctxLog, errorCount, metricsFor>>
    /\ UNCHANGED nonPlVars

NextPipeline ==
    \/ \E r \in Reqs, via \in {"chat", "stream", "direct"}, userAdded \in BOOLEAN :
          ProcessStart(r, via, userAdded)
    \/ \E r \in Reqs, ok, needsMemory, needsExt \in BOOLEAN :
          Classified(r, ok, needsMemory, needsExt)
    \/ \E r \in Reqs, ok \in BOOLEAN : MemoryRetrieved(r, ok)
    \/ \E r \in Reqs, ok \in BOOLEAN : ExtensionsExecuted(r, ok)
    \/ \E r \in Reqs, outcome \in {"ok", "failed", "no_response"} : Generated(r, outcome)
    \/ \E r \in Reqs : CompletionChecked(r)
    \/ \E r \in Reqs, ok \in BOOLEAN : PostConvDone(r, ok)
    \/ \E r \in Reqs, ok \in BOOLEAN : PostUserDone(r, ok)
    \/ \E r \in Reqs, ok \in BOOLEAN : PostAsstDone(r, ok)
    \/ \E r \in Reqs, committed \in BOOLEAN : Cancel(r, committed)


(***************************************************************************)
(* DatabaseManager: migrations at initialization, then serialized writes.  *)
(***************************************************************************)
\* The highest key of _get_migrations().
LatestVersion == 3
Versions == 1..LatestVersion
\* Bound: statements in one migration script.
ScriptLen == 2
\* Bound: initialize() calls in one run (a later start of the program).
MaxInits == 2
\* Bound: write statements committed in one run.
MaxWrites == 2

WriteApis == {"execute", "transaction", "execute_many", "record_access"}

InitDatabase ==
    /\ schemaVersion = {}
    /\ schema = [v \in Versions |-> 0]
    /\ applications = [v \in Versions |-> 0]
    /\ mpc = "idle"
    /\ mV = 0
    /\ inits = 0
    /\ dbLock = "none"
    /\ wpc = [t \in Tasks |-> "idle"]
    /\ wapi = [t \in Tasks |-> "none"]
    /\ dbPending = {}
    /\ dbCommitted = 0

SetMax(S) == IF S = {} THEN 0 ELSE CHOOSE x \in S : \A y \in S : y <= x
SetMin(S) == CHOOSE x \in S : \A y \in S : x <= y

\* `SELECT MAX(version) FROM schema_version`, 0 for an empty table.
CurrentVersion == SetMax(schemaVersion)

\* The versions the loop over migrations.items() applies, given the version
\* read at the start: `if version > current_version`.
PendingAfter(cur) == {v \in Versions : v > cur}

\* The loop moves to the next migration (dict order = ascending keys) or ends.
NextMigration(cur) ==
    IF PendingAfter(cur) = {}
    THEN /\ mpc' = "done"
         /\ mV' = 0
    ELSE /\ mpc' = "script"
         /\ mV' = SetMin(PendingAfter(cur))

writeVars == <<dbLock, wpc, wapi, dbPending, dbCommitted>>

\* initialize(): _create_tables, then _run_migrations reads the current version
\* and starts on the first pending migration.  It runs at the start of the
\* program, when no write call is in progress.
DbInitializeStart ==
    /\ mpc \in {"idle", "failed", "done"}
    /\ inits < MaxInits
    /\ \A t \in Tasks : wpc[t] = "idle"
    /\ inits' = inits + 1
    /\ NextMigration(CurrentVersion)
    /\ UNCHANGED <<schemaVersion, schema, applications>>
    /\ UNCHANGED writeVars
    /\ UNCHANGED nonDbVars

\* `await db.executescript(migration_sql)`: the script runs outside any
\* transaction, each statement committed on its own; `done` statements take
\* effect before one fails (done = ScriptLen: none fails).  The statements are
\* written to be repeatable (IF NOT EXISTS).
MigrationScript(done) ==
    /\ mpc = "script"
    /\ done \in 0..ScriptLen
    /\ schema' = [schema EXCEPT ![mV] = IF done > @ THEN done ELSE @]
    /\ mpc' = IF done = ScriptLen THEN "record" ELSE "failed"
    /\ UNCHANGED <<schemaVersion, applications, mV, inits>>
    /\ UNCHANGED writeVars
    /\ UNCHANGED nonDbVars

\* `INSERT INTO schema_version ...` and `db.commit()`, or one of them raises:
\* the exception is logged and raised, the connection closed.
MigrationRecord(ok) ==
    /\ mpc = "record"
    /\ IF ok
       THEN /\ schemaVersion' = schemaVersion \cup {mV}
            /\ applications' = [applications EXCEPT ![mV] = @ + 1]
            /\ NextMigration(mV)
       ELSE /\ mpc' = "failed"
            /\ UNCHANGED <<schemaVersion, applications, mV>>
    /\ UNCHANGED <<schema, inits>>
    /\ UNCHANGED writeVars
    /\ UNCHANGED nonDbVars

migVars == <<schemaVersion, schema, applications, mpc, mV, inits>>

\* execute() of a write statement, transaction() (insert / update / delete) and
\* execute_many() take _write_lock.
TakesWriteLock(api) == api \in {"execute", "transaction", "execute_many"}

\* `async with self._write_lock` leaving its block, normally or by an exception.
ReleaseWriteLock(t) == IF dbLock = t THEN "none" ELSE dbLock

\* A task calls one of the write APIs of an initialized manager.  With the lock
\* free `async with self._write_lock` does not suspend, and the task goes on to
\* `await conn.execute(...)`; record_access goes there with no lock at all.
WriteBegin(t, api) ==
    /\ mpc = "done"
    /\ wpc[t] = "idle"
    /\ api \in WriteApis
    /\ dbCommitted < MaxWrites
    /\ wapi' = [wapi EXCEPT ![t] = api]
    /\ IF TakesWriteLock(api) /\ dbLock # "none"
       THEN /\ wpc' = [wpc EXCEPT ![t] = "lock"]
            /\ UNCHANGED dbLock
       ELSE /\ wpc' = [wpc EXCEPT ![t] = "statement"]
            /\ dbLock' = IF TakesWriteLock(api) THEN t ELSE dbLock
    /\ UNCHANGED <<dbPending, dbCommitted>>
    /\ UNCHANGED migVars
    /\ UNCHANGED nonDbVars

\* A task waiting for _write_lock gets it.
WriteLockAcquired(t) ==
    /\ wpc[t] = "lock"
    /\ dbLock = "none"
    /\ dbLock' = t
    /\ wpc' = [wpc EXCEPT ![t] = "statement"]
    /\ UNCHANGED <<wapi, dbPending, dbCommitted>>
    /\ UNCHANGED migVars
    /\ UNCHANGED nonDbVars

\* The statement returned, and the task awaits conn.commit(); or it raised:
\* transaction() rolls back, the other APIs let the exception through, and
\* nothing of the statement is left.
WriteStatementDone(t, ok) ==
    /\ wpc[t] = "statement"
    /\ IF ok
       THEN /\ wpc' = [wpc EXCEPT ![t] = "commit"]
            /\ UNCHANGED dbLock
       ELSE /\ wpc' = [wpc EXCEPT ![t] = "idle"]
            /\ dbLock' = ReleaseWriteLock(t)
    /\ UNCHANGED <<wapi, dbPending, dbCommitted>>
    /\ UNCHANGED migVars
    /\ UNCHANGED nonDbVars

\* conn.commit() returned; the lock, if held, is released on the way out.
WriteCommitDone(t) ==
    /\ wpc[t] = "commit"
    /\ dbCommitted' = dbCommitted + 1
    /\ wpc' = [wpc EXCEPT ![t] = "idle"]
    /\ dbLock' = ReleaseWriteLock(t)
    /\ UNCHANGED <<wapi, dbPending>>
    /\ UNCHANGED migVars
    /\ UNCHANGED nonDbVars

\* The task is cancelled at the await it is suspended in.  CancelledError is not
\* an Exception: transaction() does not roll back, no API commits, the lock is
\* released and the connection goes back to the pool.  A statement handed to
\* the connection's thread still runs, and stays uncommitted; a commit handed
\* to it still commits.
WriteCancel(t) ==
    /\ wpc[t] \in {"lock", "statement", "commit"}
    /\ wpc' = [wpc EXCEPT ![t] = "idle"]
    /\ dbLock' = ReleaseWriteLock(t)
    /\ dbPending' = IF wpc[t] = "statement" THEN dbPending \cup {t} ELSE dbPending
    /\ dbCommitted' = IF wpc[t] = "commit" THEN dbCommitted + 1 ELSE dbCommitted
    /\ UNCHANGED wapi
    /\ UNCHANGED migVars
    /\ UNCHANGED nonDbVars

\* A later call on the pooled connection commits what was left on it.
PendingCommitted(t) ==
    /\ t \in dbPending
    /\ dbPending' = dbPending \ {t}
    /\ dbCommitted' = dbCommitted + 1
    /\ UNCHANGED <<dbLock, wpc, wapi>>
    /\ UNCHANGED migVars
    /\ UNCHANGED nonDbVars

NextDatabase ==
    \/ DbInitializeStart
    \/ \E done \in 0..ScriptLen : MigrationScript(done)
    \/ \E ok \in BOOLEAN : MigrationRecord(ok)
    \/ \E t \in Tasks, api \in WriteApis : WriteBegin(t, api)
    \/ \E t \in Tasks : WriteLockAcquired(t)
    \/ \E t \in Tasks, ok \in BOOLEAN : WriteStatementDone(t, ok)
    \/ \E t \in Tasks : WriteCommitDone(t)
    \/ \E t \in Tasks : WriteCancel(t)
    \/ \E t \in Tasks : PendingCommitted(t)

(***************************************************************************)
(* PersonalityRepository.write_audit: concurrent callers, the timestamp    *)
(* each takes, and the order in which _write_lock lets them insert.        *)
(***************************************************************************)
\* Bounds: clock ticks and write_audit calls in one run.
MaxAuditClock == 2
MaxAuditWrites == 3

Writers == Tasks \cup {"t3"}
AlIdle == [pc |-> "idle", ts |-> 0, fid |-> 0]

InitAuditLog ==
    /\ alNow = 0
    /\ alLock = "none"
    /\ alQueue = <<>>
    /\ alCall = [t \in Writers |-> AlIdle]
    /\ alRows = <<>>
    /\ alStarted = 0

\* Time passes; the clock is taken not to run backwards.
AlTick ==
    /\ alNow < MaxAuditClock
    /\ alNow' = alNow + 1
    /\ UNCHANGED <<alLock, alQueue, alCall, alRows, alStarted>>
    /\ UNCHANGED nonAlVars

WithoutWaiter(q, t) == SelectSeq(q, LAMBDA x : x # t)

LastWaiter(q) == q[Len(q)]
\* asyncio.Lock wakes its waiters in arrival order.
FirstWaiter(q) == Head(q)

\* write_audit evaluates datetime.now() for the row and calls db.execute, which
\* runs up to `async with self._write_lock` without suspending: with the lock
\* free and nobody waiting the caller holds it at once and awaits the INSERT,
\* otherwise it joins the waiters.
WriteAuditStart(t, f) ==
    /\ alCall[t].pc = "idle"
    /\ alStarted < MaxAuditWrites
    /\ alStarted' = alStarted + 1
    /\ IF alLock = "none" /\ alQueue = <<>>
       THEN /\ alLock' = t
            /\ alCall' = [alCall EXCEPT ![t] = [pc |-> "insert", ts |-> alNow, fid |-> f]]
            /\ UNCHANGED alQueue
       ELSE /\ alQueue' = Append(alQueue, t)
            /\ alCall' = [alCall EXCEPT ![t] = [pc |-> "wait", ts |-> alNow, fid |-> f]]
            /\ UNCHANGED alLock
    /\ UNCHANGED <<alNow, alRows>>
    /\ UNCHANGED nonAlVars

\* The released lock goes to the waiter that release() woke.
WriteAuditGranted ==
    /\ alLock = "none"
    /\ alQueue # <<>>
    /\ LET t == FirstWaiter(alQueue)
       IN /\ alLock' = t
          /\ alQueue' = WithoutWaiter(alQueue, t)
          /\ alCall' = [alCall EXCEPT ![t].pc = "insert"]
    /\ UNCHANGED <<alNow, alRows, alStarted>>
    /\ UNCHANGED nonAlVars

AuditRow(c) == [fid |-> c.fid, ts |-> c.ts]

\* INSERT and commit returned inside the lock, or raised: write_audit logs the
\* failure.  Either way the lock is released and the call returns.
WriteAuditInserted(t, ok) ==
    /\ alCall[t].pc = "insert"
    /\ alRows' = IF ok THEN Append(alRows, AuditRow(alCall[t])) ELSE alRows
    /\ alLock' = "none"
    /\ alCall' = [alCall EXCEPT ![t] = AlIdle]
    /\ UNCHANGED <<alNow, alQueue, alStarted>>
    /\ UNCHANGED nonAlVars

\* The caller is cancelled while it waits for the lock (it leaves the waiters)
\* or while it awaits the INSERT (the lock is released; the row is there if the
\* statement got committed).
WriteAuditCancel(t, committed) ==
    /\ alCall[t].pc \in {"wait", "insert"}
    /\ committed => alCall[t].pc = "insert"
    /\ alQueue' = WithoutWaiter(alQueue, t)
    /\ alLock' = IF alLock = t THEN "none" ELSE alLock
    /\ alRows' = IF committed THEN Append(alRows, AuditRow(alCall[t])) ELSE alRows
    /\ alCall' = [alCall EXCEPT ![t] = AlIdle]
    /\ UNCHANGED <<alNow, alStarted>>
    /\ UNCHANGED nonAlVars

NextAuditLog ==
    \/ AlTick
    \/ \E t \in Writers, f \in FragIds : WriteAuditStart(t, f)
    \/ WriteAuditGranted
    \/ \E t \in Writers, ok \in BOOLEAN : WriteAuditInserted(t, ok)
    \/ \E t \in Writers, committed \in BOOLEAN : WriteAuditCancel(t, committed)

-----------------------------------------------------------------------------
(***************************************************************************)
(* WebSocketManager (src/api/websocket/manager.py) and the /ws endpoint    *)
(* that drives it (src/api/server.py).  Client ids are the values of      *)
(* _client_counter, so the entries of the _connections dict are the ids   *)
(* 1..wsClientCounter in insertion order, the deleted ones left as holes. *)
(* A dict iterator remembers the size it started with and its position in *)
(* that entry array; it raises RuntimeError on the next step after the    *)
(* size changed.  The counter stays below the six insertions at which a   *)
(* CPython dict first rebuilds its entry array.                           *)
(***************************************************************************)
MaxConnections == 2

WsIds == 1..3
\* connect is called by the endpoint task of a new socket, broadcast by a
\* request task (stage and token callbacks, memory and personality updates)
Broadcasters == {"b1"}
WsTasks == Tasks \cup Broadcasters
WsDone == {"idle", "refused", "raised", "returned"}
WsIdleLoc == [used |-> 0, pos |-> 1, cur |-> 0, sent |-> {}, failed |-> {}, todo |-> <<>>,
              result |-> 0, closeCode |-> 0]
TaskWaiter(t) == [kind |-> "task", t |-> t, c |-> 0]
EndpointWaiter(c) == [kind |-> "endpoint", t |-> "none", c |-> c]
WsLockFree == wsLock = "none" /\ wsWaiters = <<>>

InitWebSocket ==
    /\ wsConnections = {}
    /\ wsClientCounter = 0
    /\ wsTransport = [c \in WsIds |-> "connecting"]
    /\ wsSubscribed = [c \in WsIds |-> FALSE]
    /\ wsLock = "none"
    /\ wsWaiters = <<>>
    /\ wspc = [t \in WsTasks |-> "idle"]
    /\ wsloc = [t \in WsTasks |-> WsIdleLoc]

\* connect: `if len(self._connections) >= self._max_connections`
OverCap(n) == n > MaxConnections
AtCap(n) == n >= MaxConnections

\* connect, from the point where it holds _lock up to its first await
ConnectLocked(t) ==
    /\ wsLock' = t
    /\ IF AtCap(Cardinality(wsConnections))
          THEN /\ wspc' = [wspc EXCEPT ![t] = "closing"]
               /\ wsloc' = [wsloc EXCEPT ![t] = [WsIdleLoc EXCEPT !.closeCode = 1013]]
          ELSE /\ wspc' = [wspc EXCEPT ![t] = "accepting"]
               /\ wsloc' = [wsloc EXCEPT ![t] = WsIdleLoc]

\* connect is called by the endpoint of a new socket
ConnectStart(t) ==
    /\ wspc[t] \in WsDone
    /\ wsClientCounter
         + Cardinality({u \in Tasks : wspc[u] \in {"connectWait", "accepting"}})
         < Cardinality(WsIds)
    /\ IF WsLockFree
          THEN ConnectLocked(t) /\ UNCHANGED wsWaiters
          ELSE /\ wsWaiters' = Append(wsWaiters, TaskWaiter(t))
               /\ wspc' = [wspc EXCEPT ![t] = "connectWait"]
               /\ wsloc' = [wsloc EXCEPT ![t] = WsIdleLoc]
               /\ UNCHANGED wsLock
    /\ UNCHANGED <<wsConnections, wsClientCounter, wsTransport, wsSubscribed>>
    /\ UNCHANGED nonWsVars

\* `await websocket.close(code=1013, ...)` is over: return None
ConnectClosed(t) ==
    /\ wspc[t] = "closing"
    /\ wsLock' = "none"
    /\ wspc' = [wspc EXCEPT ![t] = "refused"]
    /\ UNCHANGED <<wsConnections, wsClientCounter, wsTransport, wsSubscribed, wsWaiters,
                   wsloc>>
    /\ UNCHANGED nonWsVars

\* `await websocket.accept()` is over: register the client and send the confirmation
ConnectAccepted(t, ok) ==
    /\ wspc[t] = "accepting"
    /\ IF ok
          THEN LET id == wsClientCounter + 1
               IN /\ wsClientCounter' = id
                  /\ wsConnections' = wsConnections \cup {id}
                  /\ wsTransport' = [wsTransport EXCEPT ![id] = "connected"]
                  /\ wsSubscribed' = [wsSubscribed EXCEPT ![id] = TRUE]
                  /\ wspc' = [wspc EXCEPT ![t] = "confirming"]
                  /\ wsloc' = [wsloc EXCEPT ![t].result = id]
                  /\ UNCHANGED wsLock
          ELSE /\ wsLock' = "none"
               /\ wspc' = [wspc EXCEPT ![t] = "raised"]
               /\ UNCHANGED <<wsConnections, wsClientCounter, wsTransport, wsSubscribed,
                              wsloc>>
    /\ UNCHANGED wsWaiters
    /\ UNCHANGED nonWsVars

\* the confirmation send is over (its result is ignored): return the client id
\* to the endpoint, which starts its receive loop
ConnectConfirmed(t) ==
    /\ wspc[t] = "confirming"
    /\ wsLock' = "none"
    /\ wspc' = [wspc EXCEPT ![t] = "idle"]
    /\ wsloc' = [wsloc EXCEPT ![t] = WsIdleLoc]
    /\ UNCHANGED <<wsConnections, wsClientCounter, wsTransport, wsSubscribed, wsWaiters>>
    /\ UNCHANGED nonWsVars

\* The for loop of broadcast from entry i on, up to the send that suspends it
\* (cur # 0) or to the end of the entries (cur = 0).  ClientConnection.send
\* returns False without suspending when the transport is not connected.
RECURSIVE Scan(_, _)
Scan(i, l) ==
    IF i > wsClientCounter THEN [l EXCEPT !.pos = i, !.cur = 0]
    ELSE IF i \notin wsConnections \/ ~wsSubscribed[i] THEN Scan(i + 1, l)
    ELSE IF wsTransport[i] # "connected"
         THEN Scan(i + 1, [l EXCEPT !.failed = @ \cup {i}, !.todo = Append(@, i)])
    ELSE [l EXCEPT !.pos = i + 1, !.cur = i]

Range(s) == {s[i] : i \in DOMAIN s}

\* the subscriptions live in the ClientConnection object, which goes with its key
DropSubscriptions == wsSubscribed' = [c \in WsIds |-> wsSubscribed[c] /\ c \in wsConnections']

\* `del self._connections[client_id]` for the clients of the list
EvictNothing(conns, todo) == conns
Evict(conns, todo) == conns \ Range(todo)

\* what is left of the locals once the call is over: the clients it sent to and
\* the clients it failed to send to
Report(l) == [WsIdleLoc EXCEPT !.sent = l.sent, !.failed = l.failed]

\* The cleanup loop of broadcast: each disconnect takes _lock at once while no
\* one holds or awaits it, and queues behind the waiters otherwise.
Finish(t, l) ==
    IF l.todo = <<>> \/ WsLockFree
       THEN /\ wsConnections' = Evict(wsConnections, l.todo)
            /\ wspc' = [wspc EXCEPT ![t] = "returned"]
            /\ wsloc' = [wsloc EXCEPT ![t] = Report(l)]
            /\ UNCHANGED wsWaiters
       ELSE /\ wsWaiters' = Append(wsWaiters, TaskWaiter(t))
            /\ wspc' = [wspc EXCEPT ![t] = "cleanup"]
            /\ wsloc' = [wsloc EXCEPT ![t] = l]
            /\ UNCHANGED wsConnections

\* the loop goes on after a send, or ends
Continue(t, l) ==
    IF l.cur # 0
       THEN /\ wspc' = [wspc EXCEPT ![t] = "sending"]
            /\ wsloc' = [wsloc EXCEPT ![t] = l]
            /\ UNCHANGED <<wsConnections, wsWaiters>>
       ELSE Finish(t, l)

\* broadcast(message, channel) on the channel wsSubscribed stands for
BroadcastStart(t) ==
    /\ wspc[t] \in WsDone
    /\ Continue(t, Scan(1, [WsIdleLoc EXCEPT !.used = Cardinality(wsConnections)]))
    /\ DropSubscriptions
    /\ UNCHANGED <<wsClientCounter, wsTransport, wsLock>>
    /\ UNCHANGED nonWsVars

\* `await connection.send(message)` is over; the iterator takes its next step
BroadcastSent(t, ok) ==
    /\ wspc[t] = "sending"
    /\ ok => wsTransport[wsloc[t].cur] = "connected"
    /\ LET c == wsloc[t].cur
           l == IF ok THEN [wsloc[t] EXCEPT !.sent = @ \cup {c}]
                      ELSE [wsloc[t] EXCEPT !.failed = @ \cup {c}, !.todo = Append(@, c)]
       IN IF Cardinality(wsConnections) # l.used
             THEN /\ wspc' = [wspc EXCEPT ![t] = "raised"]
                  /\ wsloc' = [wsloc EXCEPT ![t] = WsIdleLoc]
                  /\ UNCHANGED <<wsConnections, wsWaiters>>
             ELSE Continue(t, Scan(l.pos, l))
    /\ DropSubscriptions
    /\ UNCHANGED <<wsClientCounter, wsTransport, wsLock>>
    /\ UNCHANGED nonWsVars

\* _lock is free and its first waiter runs: a connect goes on, a disconnect
\* deletes its client and releases the lock again
WsGranted ==
    /\ wsLock = "none"
    /\ wsWaiters # <<>>
    /\ LET w == Head(wsWaiters)
           q == Tail(wsWaiters)
       IN IF w.kind = "endpoint"
             THEN /\ wsConnections' = wsConnections \ {w.c}
                  /\ wsWaiters' = q
                  /\ UNCHANGED <<wsLock, wspc, wsloc>>
          ELSE IF wspc[w.t] = "connectWait"
             THEN /\ ConnectLocked(w.t)
                  /\ wsWaiters' = q
                  /\ UNCHANGED wsConnections
          ELSE LET l == wsloc[w.t]
                   rest == Tail(l.todo)
               IN /\ wsLock' = wsLock
                  /\ IF rest = <<>> \/ q = <<>>
                        THEN /\ wsConnections' = Evict(wsConnections, l.todo)
                             /\ wsWaiters' = q
                             /\ wspc' = [wspc EXCEPT ![w.t] = "returned"]
                             /\ wsloc' = [wsloc EXCEPT ![w.t] = Report(l)]
                        ELSE /\ wsConnections' = Evict(wsConnections, <<Head(l.todo)>>)
                             /\ wsWaiters' = Append(q, w)
                             /\ wsloc' = [wsloc EXCEPT ![w.t].todo = rest]
                             /\ UNCHANGED wspc
    /\ DropSubscriptions
    /\ UNCHANGED <<wsClientCounter, wsTransport>>
    /\ UNCHANGED nonWsVars

\* the endpoint of client c runs its receive loop: connect has returned its id
EndpointRuns(c) ==
    /\ c <= wsClientCounter
    /\ wsTransport[c] = "connected"
    /\ \A t \in Tasks : ~(wspc[t] = "confirming" /\ wsloc[t].result = c)

\* websocket_endpoint: the client went away, receive_text raises and the
\* handler calls disconnect(client_id)
ClientLeaves(c) ==
    /\ EndpointRuns(c)
    /\ wsTransport' = [wsTransport EXCEPT ![c] = "disconnected"]
    /\ IF WsLockFree
          THEN wsConnections' = wsConnections \ {c} /\ UNCHANGED wsWaiters
          ELSE wsWaiters' = Append(wsWaiters, EndpointWaiter(c)) /\ UNCHANGED wsConnections
    /\ DropSubscriptions
    /\ UNCHANGED <<wsClientCounter, wsLock, wspc, wsloc>>
    /\ UNCHANGED nonWsVars

\* handle_client_message: subscribe / unsubscribe for the broadcast channel
SetSubscription(c, b) ==
    /\ EndpointRuns(c)
    /\ c \in wsConnections
    /\ wsSubscribed[c] # b
    /\ wsSubscribed' = [wsSubscribed EXCEPT ![c] = b]
    /\ UNCHANGED <<wsConnections, wsClientCounter, wsTransport, wsLock, wsWaiters, wspc,
                   wsloc>>
    /\ UNCHANGED nonWsVars

NextWebSocket ==
    \/ \E t \in Tasks : ConnectStart(t)
    \/ \E t \in Tasks : ConnectClosed(t)
    \/ \E t \in Tasks, ok \in BOOLEAN : ConnectAccepted(t, ok)
    \/ \E t \in Tasks : ConnectConfirmed(t)
    \/ \E t \in Broadcasters : BroadcastStart(t)
    \/ \E t \in Broadcasters, ok \in BOOLEAN : BroadcastSent(t, ok)
    \/ WsGranted
    \/ \E c \in WsIds : ClientLeaves(c)
    \/ \E c \in WsIds, b \in BOOLEAN : SetSubscription(c, b)

-----------------------------------------------------------------------------
(***************************************************************************)
(* LongTermMemory (src/memory/long_term.py).  A content is the set of its  *)
(* keywords; `LOWER(content) LIKE %kw%` is membership of kw.  An embedding *)
(* is a vector over Words; the embedding model maps a text to the         *)
(* indicator vector of its words, when it answers at all.  Rows are kept  *)
(* in created_at order.                                                    *)
(***************************************************************************)
MaxMemories == 3
MaxK == 2

Words == {"w1", "w2"}
LtContents == (SUBSET Words) \ {{}}
ZeroVec == [w \in Words |-> 0]
Embed(c) == [w \in Words |-> IF w \in c THEN 1 ELSE 0]
NoSearch == [query |-> {}, k |-> 0, stored |-> FALSE, results |-> <<>>]

InitLongTerm ==
    /\ ltRows = <<>>
    /\ ltSearch = NoSearch

\* add(content, metadata, embedding): the caller passes the embedding of the
\* content, or None when generate_embedding failed
LtAdd(c, embAvail) ==
    /\ Len(ltRows) < MaxMemories
    /\ ltRows' = Append(ltRows, [content |-> c, hasEmb |-> embAvail,
                                 emb |-> IF embAvail THEN Embed(c) ELSE ZeroVec,
                                 accessed |-> FALSE])
    /\ UNCHANGED ltSearch
    /\ UNCHANGED nonLtVars

RECURSIVE SumOver(_, _)
SumOver(S, f) ==
    IF S = {} THEN 0 ELSE LET w == CHOOSE x \in S : TRUE IN f[w] + SumOver(S \ {w}, f)

Dot(a, b) == SumOver(Words, [w \in Words |-> a[w] * b[w]])
Norm2(a) == Dot(a, a)

\* similarity >= MIN_SIMILARITY (0.30), cosine clamped to [0, 1]
Similar(q, e) == Dot(q, e) > 0 /\ 100 * Dot(q, e) * Dot(q, e) >= 9 * Norm2(q) * Norm2(e)

\* cosine(q, a) >= cosine(q, b), both non-negative with non-zero norms
SimGeq(q, a, b) == Dot(q, a) * Dot(q, a) * Norm2(b) >= Dot(q, b) * Dot(q, b) * Norm2(a)

Reverse(s) == [i \in 1..Len(s) |-> s[Len(s) + 1 - i]]
Take(s, n) == SubSeq(s, 1, IF n < Len(s) THEN n ELSE Len(s))
Indices(P(_)) == SelectSeq(Reverse([i \in 1..Len(ltRows) |-> i]), P)

\* scored.sort(key=similarity, reverse=True): stable
RECURSIVE SortBySimilarity(_, _)
SortBySimilarity(q, s) ==
    IF s = <<>> THEN <<>>
    ELSE LET x == s[Len(s)]
             sorted == SortBySimilarity(q, SubSeq(s, 1, Len(s) - 1))
             n == Cardinality({i \in 1..Len(sorted) :
                                  SimGeq(q, ltRows[sorted[i]].emb, ltRows[x].emb)})
         IN SubSeq(sorted, 1, n) \o <<x>> \o SubSeq(sorted, n + 1, Len(sorted))

\* _search_by_embedding: rows with an embedding, newest first, above the
\* threshold, best first, top k
SearchByEmbedding(q, k) ==
    LET HasSimilar(i) == /\ ltRows[i].hasEmb
                         /\ Norm2(ltRows[i].emb) # 0
                         /\ Similar(q, ltRows[i].emb)
    IN IF Norm2(q) = 0 THEN <<>> ELSE Take(SortBySimilarity(q, Indices(HasSimilar)), k)

\* _search_by_keywords: rows whose content holds one of the keywords, newest
\* first, LIMIT 2k, then cut to k
SearchByKeywords(query, k) ==
    LET Matches(i) == ltRows[i].content \cap query # {}
    IN Take(Take(Indices(Matches), 2 * k), k)

\* search(query, k): embedding search when a query embedding can be made,
\* keyword search when that gave nothing
SearchResults(query, k, embAvail) ==
    LET byEmb == IF embAvail THEN Take(SearchByEmbedding(Embed(query), 3 * k), k) ELSE <<>>
    IN IF byEmb # <<>> THEN byEmb ELSE SearchByKeywords(query, k)

\* search; ok = no database call raised (`except Exception: return []`)
LtSearch(query, k, embAvail, ok) ==
    LET res == IF ok THEN SearchResults(query, k, embAvail) ELSE <<>>
    IN /\ ltRows # <<>>
       /\ ltRows' = [i \in 1..Len(ltRows) |->
                        IF i \in Range(res) THEN [ltRows[i] EXCEPT !.accessed = TRUE]
                                            ELSE ltRows[i]]
       /\ ltSearch' = [query |-> query, k |-> k,
                       stored |-> \E i \in 1..Len(ltRows) : ltRows[i].content = query,
                       results |-> [i \in 1..Len(res) |-> ltRows[res[i]].content]]
       /\ UNCHANGED nonLtVars

NextLongTerm ==
    \/ \E c \in LtContents, embAvail \in BOOLEAN : LtAdd(c, embAvail)
    \/ \E query \in LtContents, k \in 1..MaxK, embAvail \in BOOLEAN, ok \in BOOLEAN :
          LtSearch(query, k, embAvail, ok)

-----------------------------------------------------------------------------
(***************************************************************************)
(* ExtensionManager (src/extensions/manager.py).  The constructor loads    *)
(* the core extension; whether a module is a core one is fixed by its     *)
(* EXTENSION_METADATA.                                                     *)
(***************************************************************************)
ExtNames == {"core_ext", "user_ext", "generated_ext"}
CoreNames == {"core_ext"}
NoExt == [loaded |-> FALSE, enabled |-> FALSE]
NoCall == [op |-> "none", name |-> "none", raised |-> "none"]

InitExtensions ==
    /\ extensions = [n \in ExtNames |->
                        IF n \in CoreNames THEN [loaded |-> TRUE, enabled |-> TRUE] ELSE NoExt]
    /\ extCall = NoCall

\* `module_name in self._extensions`
AlwaysRegistered(exts, n) == TRUE
Registered(exts, n) == exts[n].loaded

\* load(module_name); ok = the import succeeded
ExtLoad(n, ok) ==
    /\ extensions' = IF ok THEN [extensions EXCEPT ![n] = [loaded |-> TRUE, enabled |-> TRUE]]
                           ELSE extensions
    /\ extCall' = [op |-> "load", name |-> n, raised |-> IF ok THEN "none" ELSE "ImportError"]
    /\ UNCHANGED nonExtVars

\* enable(module_name) and disable(module_name)
SetEnabled(op, n, flag) ==
    /\ IF Registered(extensions, n)
          THEN /\ extensions' = [extensions EXCEPT ![n].enabled = flag]
               /\ extCall' = [op |-> op, name |-> n, raised |-> "none"]
          ELSE /\ extensions' = extensions
               /\ extCall' = [op |-> op, name |-> n, raised |-> "KeyError"]
    /\ UNCHANGED nonExtVars

ExtEnable(n) == SetEnabled("enable", n, TRUE)
ExtDisable(n) == SetEnabled("disable", n, FALSE)

\* remove(module_name): core extensions are protected
ExtRemove(n) ==
    /\ IF ~Registered(extensions, n)
          THEN /\ extensions' = extensions
               /\ extCall' = [op |-> "remove", name |-> n, raised |-> "KeyError"]
          ELSE IF n \in CoreNames
          THEN /\ extensions' = extensions
               /\ extCall' = [op |-> "remove", name |-> n, raised |-> "PermissionError"]
          ELSE /\ extensions' = [extensions EXCEPT ![n] = NoExt]
               /\ extCall' = [op |-> "remove", name |-> n, raised |-> "none"]
    /\ UNCHANGED nonExtVars

NextExtensions ==
    \/ \E n \in ExtNames, ok \in BOOLEAN : ExtLoad(n, ok)
    \/ \E n \in ExtNames : ExtEnable(n)
    \/ \E n \in ExtNames : ExtDisable(n)
    \/ \E n \in ExtNames : ExtRemove(n)

-----------------------------------------------------------------------------
(***************************************************************************)
(* The pipeline registry of src/api/routes/processing.py: a module-level    *)
(* dict keyed by request id, with start_pipeline, update_stage and          *)
(* finish_pipeline.  The three functions are synchronous, so each call is   *)
(* one step.  Callers may pass any request id, stage name and status.       *)
(***************************************************************************)

\* finish_pipeline keeps the last 50 pipelines; the model runs with a small cap.
KeepPipelines == 2
\* Bounds: request ids in use, and update_stage calls that take effect.
MaxRequestIds == 3
MaxStageUpdates == 2

RequestIds == 1..MaxRequestIds

STAGE_NAMES == <<"intent", "memory", "extension", "llm", "post">>
StageNames == {STAGE_NAMES[i] : i \in DOMAIN STAGE_NAMES}
\* STAGE_NAMES.index(stage)
StageIndex(stage) == CHOOSE i \in DOMAIN STAGE_NAMES : STAGE_NAMES[i] = stage

StageStatuses == {"active", "completed", "error", "skipped"}

NoPipeline == [status |-> "none", current_stage |-> "none",
               stages |-> [n \in StageNames |-> "none"]]

\* _empty_stages()
EmptyStages == [n \in StageNames |-> "pending"]

InitPipelineRegistry ==
    /\ prPipelines = [id \in RequestIds |-> NoPipeline]
    /\ prOrder = <<>>
    /\ prActive = 0
    /\ prUpdates = 0

\* start_pipeline(request_id): the key is set (a key already present keeps its
\* place in the dict); nothing is removed here.
StartPipeline(id) ==
    /\ prPipelines' = [prPipelines EXCEPT ![id] =
                          [status |-> "active", current_stage |-> STAGE_NAMES[1],
                           stages |-> EmptyStages]]
    /\ prOrder' = IF prPipelines[id] = NoPipeline THEN Append(prOrder, id) ELSE prOrder
    /\ prActive' = id
    /\ UNCHANGED prUpdates
    /\ UNCHANGED nonPrVars

\* Stages after `stage` in STAGE_NAMES whose status is "pending".
PendingStagesAfter(stages, stage) ==
    {i \in DOMAIN STAGE_NAMES : i > StageIndex(stage) /\ stages[STAGE_NAMES[i]] = "pending"}

\* The pointer after update_stage(stage, status): the stage itself when it
\* becomes active; otherwise the first pending stage after it, if there is one.
NextCurrentStage(pipeline, stages, stage, status) ==
    IF status = "active" THEN stage
    ELSE IF PendingStagesAfter(stages, stage) = {} THEN pipeline.current_stage
    ELSE STAGE_NAMES[CHOOSE i \in PendingStagesAfter(stages, stage) :
                        \A j \in PendingStagesAfter(stages, stage) : i <= j]

\* update_stage(request_id, stage, status); an unknown request id returns at once.
UpdateStage(id, stage, status) ==
    /\ prUpdates < MaxStageUpdates
    /\ IF prPipelines[id] = NoPipeline
       THEN UNCHANGED <<prPipelines, prUpdates>>
       ELSE LET stages == [prPipelines[id].stages EXCEPT ![stage] = status]
            IN /\ prPipelines' = [prPipelines EXCEPT ![id] =
                      [@ EXCEPT !.stages = stages,
                                !.current_stage =
                                    NextCurrentStage(prPipelines[id], stages, stage, status)]]
               /\ prUpdates' = prUpdates + 1
    /\ UNCHANGED <<prOrder, prActive>>
    /\ UNCHANGED nonPrVars

RECURSIVE TrimOldest(_)
\* `while len(_pipelines) > 50: del _pipelines[next(iter(_pipelines))]`
TrimOldest(order) ==
    IF Len(order) > KeepPipelines THEN TrimOldest(Tail(order)) ELSE order

\* finish_pipeline(request_id, error): an unknown request id returns before the
\* trimming loop.
FinishPipeline(id, error) ==
    /\ IF prPipelines[id] = NoPipeline
       THEN UNCHANGED <<prPipelines, prOrder>>
       ELSE LET kept == TrimOldest(prOrder)
                keptIds == {kept[i] : i \in DOMAIN kept}
            IN /\ prOrder' = kept
               /\ prPipelines' = [x \in RequestIds |->
                      IF x \notin keptIds THEN NoPipeline
                      ELSE IF x = id
                      THEN [prPipelines[x] EXCEPT !.status = IF error THEN "error" ELSE "completed"]
                      ELSE prPipelines[x]]
    /\ UNCHANGED <<prActive, prUpdates>>
    /\ UNCHANGED nonPrVars

NextPipelineRegistry ==
    \/ \E id \in RequestIds : StartPipeline(id)
    \/ \E id \in RequestIds, stage \in StageNames, status \in StageStatuses :
          UpdateStage(id, stage, status)
    \/ \E id \in RequestIds, error \in BOOLEAN : FinishPipeline(id, error)

-----------------------------------------------------------------------------
(***************************************************************************)
(* get_sena of src/api/deps.py: the dependency that builds the global Sena  *)
(* instance on first use.  It takes no lock; its one suspension point is    *)
(* `await _sena_instance.initialize()`.                                     *)
(***************************************************************************)

INIT_COOLDOWN_SECONDS == 15
\* Bounds: Sena objects constructed in one run, the clock's step and its end.
MaxInstances == 3
GsTickStep == 10
GsMaxTime == 45

InstanceIds == 1..MaxInstances

\* The process has been up for longer than the cooldown when the API starts.
InitGetSena ==
    /\ gsInstance = 0
    /\ gsInitialized = {}
    /\ gsLastAttempt = 0
    /\ gsNow = INIT_COOLDOWN_SECONDS
    /\ gsNextId = 0
    /\ gspc = [t \in Tasks |-> "idle"]
    /\ gsSelf = [t \in Tasks |-> 0]
    /\ gsOut = [t \in Tasks |-> "none"]
    /\ gsHanded = {}

\* The fast path: `_sena_instance is not None and _sena_instance.is_initialized`.
FastPath == gsInstance # 0 /\ gsInstance \in gsInitialized

\* The cooldown guard reads only whether the instance is None.
InCooldown == gsInstance = 0 /\ gsNow - gsLastAttempt < INIT_COOLDOWN_SECONDS

\* get_sena up to `await _sena_instance.initialize()`, or to its return or
\* raise on the fast path and in the cooldown.
GetSenaCall(t) ==
    /\ gspc[t] = "idle"
    /\ IF FastPath
       THEN /\ gsOut' = [gsOut EXCEPT ![t] = gsInstance]
            /\ gsHanded' = gsHanded \cup {gsInstance}
            /\ UNCHANGED <<gsInstance, gsLastAttempt, gsNextId, gspc, gsSelf>>
       ELSE IF InCooldown
       THEN /\ gsOut' = [gsOut EXCEPT ![t] = "cooldown"]
            /\ UNCHANGED <<gsInstance, gsLastAttempt, gsNextId, gspc, gsSelf, gsHanded>>
       ELSE /\ gsNextId < MaxInstances
            /\ gsLastAttempt' = gsNow
            /\ gsNextId' = gsNextId + 1
            /\ gsInstance' = gsNextId + 1
            /\ gsSelf' = [gsSelf EXCEPT ![t] = gsNextId + 1]
            /\ gspc' = [gspc EXCEPT ![t] = "initializing"]
            /\ gsOut' = [gsOut EXCEPT ![t] = "none"]
            /\ UNCHANGED gsHanded
    /\ UNCHANGED <<gsInitialized, gsNow>>
    /\ UNCHANGED nonGsVars

\* initialize() of the task's object is over (ok: it did not raise).  The code
\* after the await reads the global again: set_stage_callback on None raises
\* AttributeError, which the `except Exception` handles like a failed
\* initialization; otherwise the global, whatever it now is, is returned.
GetSenaInitDone(t, ok) ==
    /\ gspc[t] = "initializing"
    /\ gspc' = [gspc EXCEPT ![t] = "idle"]
    /\ gsSelf' = [gsSelf EXCEPT ![t] = 0]
    /\ gsInitialized' = IF ok THEN gsInitialized \cup {gsSelf[t]} ELSE gsInitialized
    /\ IF ok /\ gsInstance # 0
       THEN /\ gsLastAttempt' = 0
            /\ gsOut' = [gsOut EXCEPT ![t] = gsInstance]
            /\ gsHanded' = gsHanded \cup {gsInstance}
            /\ UNCHANGED gsInstance
       ELSE /\ gsInstance' = 0
            /\ gsOut' = [gsOut EXCEPT ![t] = "raised"]
            /\ UNCHANGED <<gsLastAttempt, gsHanded>>
    /\ UNCHANGED <<gsNow, gsNextId>>
    /\ UNCHANGED nonGsVars

\* Time passes.
GsTick ==
    /\ gsNow + GsTickStep <= GsMaxTime
    /\ gsNow' = gsNow + GsTickStep
    /\ UNCHANGED <<gsInstance, gsInitialized, gsLastAttempt, gsNextId, gspc, gsSelf, gsOut,
                   gsHanded>>
    /\ UNCHANGED nonGsVars

NextGetSena ==
    \/ \E t \in Tasks : GetSenaCall(t)
    \/ \E t \in Tasks, ok \in BOOLEAN : GetSenaInitDone(t, ok)
    \/ GsTick

-----------------------------------------------------------------------------
Init ==
    /\ InitRegistry
    /\ InitRouter
    /\ InitPersonality
    /\ InitTelemetry
    /\ InitOllamaManager
    /\ InitShortTerm
    /\ InitPipeline
    /\ InitDatabase
    /\ InitAuditLog
    /\ InitWebSocket
    /\ InitLongTerm
    /\ InitExtensions
    /\ InitPipelineRegistry
    /\ InitGetSena

\* Each specification runs one component; the others stay in their initial state
\* under the default configuration (router and fast slots present, telemetry
\* enabled, process management on).
DefaultRouter == rtRouterPresent = TRUE /\ rtFastPresent = TRUE
DefaultTelemetry == tEnabled = TRUE
DefaultOllamaManager == omManage = TRUE

InitForRegistry == Init /\ DefaultRouter /\ DefaultTelemetry /\ DefaultOllamaManager
InitForRouter == Init /\ DefaultTelemetry /\ DefaultOllamaManager
InitForPersonality == Init /\ DefaultRouter /\ DefaultTelemetry /\ DefaultOllamaManager
InitForTelemetry == Init /\ DefaultRouter /\ DefaultOllamaManager
InitForOllamaManager == Init /\ DefaultRouter /\ DefaultTelemetry
InitForShortTerm == Init /\ DefaultRouter /\ DefaultTelemetry /\ DefaultOllamaManager
InitForPipeline == Init /\ DefaultRouter /\ DefaultTelemetry /\ DefaultOllamaManager
InitForDatabase == Init /\ DefaultRouter /\ DefaultTelemetry /\ DefaultOllamaManager
InitForAuditLog == Init /\ DefaultRouter /\ DefaultTelemetry /\ DefaultOllamaManager
InitForWebSocket == Init /\ DefaultRouter /\ DefaultTelemetry /\ DefaultOllamaManager
InitForLongTerm == Init /\ DefaultRouter /\ DefaultTelemetry /\ DefaultOllamaManager
InitForExtensions == Init /\ DefaultRouter /\ DefaultTelemetry /\ DefaultOllamaManager
InitForPipelineRegistry == Init /\ DefaultRouter /\ DefaultTelemetry /\ DefaultOllamaManager
InitForGetSena == Init /\ DefaultRouter /\ DefaultTelemetry /\ DefaultOllamaManager

SpecRegistry == InitForRegistry /\ [][NextRegistry]_vars
SpecRegistryShutdown == InitForRegistry /\ [][NextRegistryShutdown]_vars
SpecRouter == InitForRouter /\ [][NextRouter]_vars
SpecPersonality == InitForPersonality /\ [][NextPersonality]_vars
SpecTelemetry == InitForTelemetry /\ [][NextTelemetry]_vars
SpecOllamaManager == InitForOllamaManager /\ [][NextOllamaManager]_vars
SpecShortTerm == InitForShortTerm /\ [][NextShortTerm]_vars
SpecPipeline == InitForPipeline /\ [][NextPipeline]_vars
SpecDatabase == InitForDatabase /\ [][NextDatabase]_vars
SpecAuditLog == InitForAuditLog /\ [][NextAuditLog]_vars
SpecWebSocket == InitForWebSocket /\ [][NextWebSocket]_vars
SpecLongTerm == InitForLongTerm /\ [][NextLongTerm]_vars
SpecExtensions == InitForExtensions /\ [][NextExtensions]_vars
SpecPipelineRegistry == InitForPipelineRegistry /\ [][NextPipelineRegistry]_vars
SpecGetSena == InitForGetSena /\ [][NextGetSena]_vars


-----------------------------------------------------------------------------
(***************************************************************************)
(* Claims                                                                  *)
(***************************************************************************)

\* C1: once initialize() has completed, whenever the fast slot is registered the
\* router slot references the very same client object as the fast slot.
C1_RouterSharesFastClient ==
    (regInit /\ models["fast"] # 0) => models["router"] = models["fast"]

\* C2: concurrent get_client / switch_to callers of a not-yet-loaded slot load the
\* underlying client exactly once: no client completes a second load() without an
\* unload() in between.
C2_ClientLoadedOnce ==
    \A c \in ClientIds : loads[c] <= 1


\* A classify call starts a router-model load attempt in this step.
LoadAttemptStarts == \E t \in Tasks : cpc[t] # "loading" /\ cpc'[t] = "loading"

\* The 300 s that follow the latest third-in-a-row load failure.
InFailureWindow == winStart >= 0 /\ rtNow < winStart + 300

\* C3: after 3 consecutive router-load failures no classify call starts a router
\* load during the following 300 s; a call that starts in that window with a
\* router model registered takes the fast model instead.
C3_NoLoadWhileOpen ==
    [][InFailureWindow =>
         /\ ~LoadAttemptStarts
         /\ \A t \in Tasks :
               (cpc[t] = "idle" /\ cpc'[t] # "idle" /\ rtRouterPresent)
                   => (rtPath'[t] = "circuit_open" /\ cpc'[t] = "generating")]_vars

C3_Witness ==
    /\ InFailureWindow
    /\ rtRouterPresent /\ ~rtLoaded
    /\ \E t \in Tasks : cpc[t] = "generating" /\ rtPath[t] = "circuit_open"

\* C4: a successful router-model load leaves failureCount = 0 and the circuit
\* closed.
C4_SuccessfulLoadClosesCircuit ==
    [][(\E t \in Tasks : cpc[t] = "loading" /\ rtPath'[t] = "load_ok")
          => (routerFailureCount' = 0 /\ ~(rtNow' < routerCircuitOpenUntil'))]_vars


\* No approve / reject / edit / delete / store / infer call is between its first
\* database write and its return.
NoMutationInFlight == \A t \in Tasks : ppc[t] \notin {"fetched", "written"}

\* C5: once every mutation of the approved fragments has returned, a
\* get_personality_block call that starts now is not served a stale cached block:
\* a clean cache holds a block built from the current approved set.
C5_NoStaleBlock ==
    (NoMutationInFlight /\ ~cacheDirty /\ blockCache # NoBlock)
        => blockCache \in BlocksOf(GetApproved(2 * MaxFragmentsInPrompt))


\* C6: no recorded metric point is dropped: every point appended by record_metric
\* is still in the unflushed buffer, in a batch being inserted, or in storage
\* (a point in none of them can never be written any more).
C6_NoMetricDropped ==
    \A m \in 1..tNext :
        InSeq(m, tStored) \/ InSeq(m, tBuffer) \/ InSeq(m, loopBatch) \/ InSeq(m, sdBatch)


\* C7: the manager never terminates a process it did not start: every process it
\* has sent terminate() or kill() to, and every process a shutdown call is waiting
\* on, is a child this manager spawned; while it has spawned none (every
\* ensure_running found the backend already running or gave up before spawning)
\* shutdown stops nothing.
C7_NeverTerminatesForeign ==
    /\ omTerminated \subseteq 1..omNext
    /\ \A t \in Tasks : opc[t] = "sd_wait" => oloc[t] \in 1..omNext
    /\ omNext = 0 => \A t \in Tasks : ores[t] # "stopped"

\* An external backend serves, an ensure_running call found it already running, a
\* shutdown call returned at its guard, and the manager has terminated a process.
C7_Witness ==
    /\ procs[ExternalBackend] = "ready"
    /\ omTerminated # {}
    /\ \E t \in Tasks : ores[t] = "noop"
    /\ \E t \in Tasks : ores[t] = "already running"

LiveChildren == {c \in Children : Alive(c)}

\* C8: at most one child process spawned by the manager is alive at any time.
C8_AtMostOneLiveChild == Cardinality(LiveChildren) <= 1


\* C9: a short-term buffer never holds more than max_messages items: neither the
\* in-memory buffer nor the stored buffer of any session.
C9_BufferWithinCapacity ==
    /\ Len(stBuffer) <= MaxMessages
    /\ \A s \in Sessions : Len(SessionRows(s)) <= MaxMessages

\* C10: every item returned by the latest read of a short-term buffer was
\* unexpired at the time of the read (t <= expiresAt).
C10_NoExpiredObserved ==
    \A i \in 1..Len(stRead.items) : stRead.at <= stRead.items[i].expiresAt


\* A step of ShortTermMemory.add.
MemAddStep == stNextId' = stNextId + 1 /\ stRows' = stRows

AllUnexpired(buf, now) == CleanupExpired(buf, now) = buf

\* C11: when the in-memory buffer holds exactly max_messages unexpired items, one
\* more add evicts exactly one item, the oldest: the buffer becomes its former
\* tail followed by the new item.
C11_AddEvictsOldest ==
    [][(MemAddStep /\ Len(stBuffer) = MaxMessages /\ AllUnexpired(stBuffer, stNow))
          => /\ Len(stBuffer') = MaxMessages
             /\ SubSeq(stBuffer', 1, MaxMessages - 1) = Tail(stBuffer)
             /\ stBuffer'[MaxMessages].id = stNextId + 1]_vars

\* max_messages + 1 adds went to the in-memory buffer while nothing expired: the
\* buffer is full and its first item is the second one added.
C11_Witness ==
    /\ stRows = <<>> /\ stNextId = MaxMessages + 1
    /\ Len(stBuffer) = MaxMessages
    /\ stBuffer[1].id = 2 /\ stBuffer[MaxMessages].id = MaxMessages + 1

Increasing(items) == \A i, j \in 1..Len(items) : i < j => items[i].id < items[j].id

\* C12: get_all returns the items in the order their add calls were made (ids
\* are given in call order; an add never suspends, so overlapping callers' adds
\* run one after the other), and the buffer itself is always in that order.
C12_InsertionOrder ==
    /\ Increasing(stBuffer)
    /\ stRead.kind = "mem" => Increasing(stRead.items)

\* get_all has returned at least two items.
C12_Witness == stRead.kind = "mem" /\ Len(stRead.items) >= 2


Count(log, x) == Cardinality({i \in 1..Len(log) : log[i] = x})
Returned(r) == req[r].out = "returned"

\* C13 (as stated): every request that completed without cancellation has
\* exactly one Conversation row.
C13_ExactlyOneConversationRow == \A r \in Reqs : Returned(r) => Count(convLog, r) = 1

\* C13 (amended): no request ever has more than one Conversation row, and a
\* request that completed has exactly one when generation produced a response
\* and the conversation insert did not fail (and none otherwise).
C13_AtMostOneConversationRow ==
    \A r \in Reqs :
        /\ Count(convLog, r) <= 1
        /\ Returned(r) =>
              Count(convLog, r) = IF req[r].gen = "ok" /\ req[r].persist # "conv_failed" THEN 1 ELSE 0

\* A request completed with its Conversation row while the other one completed
\* without one because its insert failed.
C13_Witness ==
    \E r, q \in Reqs :
        /\ Returned(r) /\ Count(convLog, r) = 1
        /\ Returned(q) /\ req[q].persist = "conv_failed" /\ Count(convLog, q) = 0


\* The user message of r, once, and later its assistant message, once.
BothInOrder(log, r) ==
    /\ Count(log, Msg(r, "user")) = 1
    /\ Count(log, Msg(r, "assistant")) = 1
    /\ \A i, j \in 1..Len(log) :
          log[i] = Msg(r, "user") /\ log[j] = Msg(r, "assistant") => i < j

\* No assistant message of r at or before a user message of r, each at most once.
NeverReversed(log, r) ==
    /\ Count(log, Msg(r, "user")) <= 1
    /\ Count(log, Msg(r, "assistant")) <= 1
    /\ \A i, j \in 1..Len(log) :
          log[i] = Msg(r, "user") /\ log[j] = Msg(r, "assistant") => i < j

\* C14 (as stated): every request that completed without cancellation has its
\* user message and then its assistant message in the session's short-term
\* buffer; read generously, in the stored buffer or in the in-memory context.
C14_UserThenAssistantAlways ==
    \A r \in Reqs : Returned(r) => BothInOrder(repoLog, r) \/ BothInOrder(ctxLog, r)

\* C14 (amended): an assistant message is never appended before the user
\* message of its request, to the stored buffer or to the in-memory context; an
\* assistant message is appended to the stored buffer only after the user
\* message of its request was; and a request that completed with both appends
\* of post-processing successful has appended the user message and then the
\* assistant message to the stored buffer (repoLog and ctxLog list the appends).
C14_UserThenAssistant ==
    \A r \in Reqs :
        /\ NeverReversed(repoLog, r)
        /\ NeverReversed(ctxLog, r)
        /\ Count(repoLog, Msg(r, "assistant")) = 1 => Count(repoLog, Msg(r, "user")) = 1
        /\ Returned(r) /\ req[r].persist = "ok" => BothInOrder(repoLog, r)

\* Both requests completed and stored their two messages, interleaved.
C14_Witness ==
    /\ \A r \in Reqs : Returned(r) /\ req[r].persist = "ok"
    /\ Len(repoLog) = 4
    /\ repoLog[1].req # repoLog[2].req


Mentions(log, r) == \E i \in 1..Len(log) : log[i].req = r

\* The request ended, by cancellation or by an error, before post-processing.
EndedBeforePostProcessing(r) ==
    /\ req[r].out \in {"cancelled", "raised"}
    /\ req[r].stage # "post_processing"

\* C15: a request whose generation is cancelled or fails before post-processing
\* writes no Conversation row and leaves the short-term buffer, stored and
\* in-memory, as it was before the request.
C15_NoUpdateOutsidePostProcessing ==
    \A r \in Reqs :
        EndedBeforePostProcessing(r) =>
            /\ Count(convLog, r) = 0
            /\ ~Mentions(repoLog, r)
            /\ ~Mentions(ctxLog, r)


Errored == {r \in Reqs : req[r].stage = "error"}

PersistFailures == {"conv_failed", "user_failed", "assistant_failed"}

WritesInProgress == {t \in Tasks : wpc[t] \in {"statement", "commit"}}

\* C19: every write statement runs while its task holds the write lock and is
\* committed before the lock is released, so at most one write is in progress
\* at any time.
C19_WritesSerialized ==
    /\ \A t \in WritesInProgress : dbLock = t
    /\ Cardinality(WritesInProgress) <= 1
    /\ dbPending = {}

\* C20: a migration's schema changes and its recorded version are committed
\* together or not at all; a migration that failed left neither; every recorded
\* version was applied exactly once; and the recorded versions are an initial
\* segment of the versions (ascending order, none skipped).
C20_MigrationsAtomicOnce ==
    /\ \A v \in Versions : (v \in schemaVersion) <=> (schema[v] > 0)
    /\ mpc = "failed" => schema[mV] = 0 /\ mV \notin schemaVersion
    /\ \A v \in Versions : applications[v] = IF v \in schemaVersion THEN 1 ELSE 0
    /\ \A v \in schemaVersion : \A u \in Versions : u < v => u \in schemaVersion


\* C21: every fragment of kind explicit has status approved and confidence 1.0
\* (confidences are in hundredths).
C21_ExplicitStaysApproved ==
    \A f \in FragIds :
        frags[f].kind = "explicit" => frags[f].status = "approved" /\ frags[f].conf = 100

\* C22: approved-at is non-null exactly for the fragments whose status has at
\* some point been approved.  Stated step by step: after every step, a row has
\* approved-at set iff it had it set before or its status is now approved.
C22_ApprovedAtIffEverApproved ==
    [][\A f \in FragIds :
          frags'[f] # NoFrag =>
              (frags'[f].approvedAt <=> (frags[f].approvedAt \/ frags'[f].status = "approved"))]_vars

AuditCount(f, action) ==
    Cardinality({i \in 1..Len(audit) : audit[i].fid = f /\ audit[i].action = action})

\* C23: however often a fragment is approved, the audit log holds at most one
\* entry with action approved for it.
C23_ApproveIdempotent == \A f \in FragIds : AuditCount(f, "approved") <= 1

\* The audit log holds an entry of fragment f that satisfies P, or the call
\* that made the change stands right before its write_audit.
AuditedOrInFlight(f, P(_)) ==
    \/ \E i \in 1..Len(audit) : audit[i].fid = f /\ P(audit[i])
    \/ \E t \in Tasks : ppc[t] = "written" /\ ploc[t].id = f /\ P(AuditEntry(ploc[t]))

HasContentOf(f) == LET P(e) == e.newContent = frags[f].content IN AuditedOrInFlight(f, P)
HasAction(f, action) == LET P(e) == e.action = action IN AuditedOrInFlight(f, P)

\* C24: no fragment change exists without its audit entry: the content a
\* fragment has, its rejection and its deletion are each recorded in the audit
\* log (at the latest when the call that made the change returns).
C24_EveryChangeAudited ==
    \A f \in FragIds :
        /\ frags[f] # NoFrag => HasContentOf(f)
        /\ frags[f].status = "rejected" => HasAction(f, "rejected")
        /\ frags[f] = NoFrag /\ f <= nextFrag => HasAction(f, "deleted")


\* C25: for each fragment, the timestamps of its audit rows are non-decreasing
\* in insertion order, whatever the interleaving of the calls that wrote them.
C25_AuditTimestampsOrdered ==
    \A i, j \in 1..Len(alRows) :
        i < j /\ alRows[i].fid = alRows[j].fid => alRows[i].ts <= alRows[j].ts

\* Two rows of one fragment with different timestamps are in the log, and a
\* third call for that fragment, which took its timestamp later still, holds
\* the lock for its INSERT.
C25_Witness ==
    /\ Len(alRows) = 2
    /\ alRows[1].fid = alRows[2].fid
    /\ alRows[1].ts < alRows[2].ts
    /\ \E t \in Writers :
          /\ alLock = t
          /\ alCall[t].fid = alRows[1].fid
          /\ alCall[t].ts > alRows[2].ts


\* The clients this shutdown() call has dealt with so far.
SeenBefore(t) == IF rpc[t] = "shutdown_unloading" THEN rloc[t].seen ELSE {}

\* In this step the shutdown() call of t starts to await client.unload() of c.
UnloadAwaited(t, c) ==
    /\ rpc'[t] = "shutdown_unloading"
    /\ rloc'[t].client = c
    /\ rpc[t] # "shutdown_unloading" \/ rloc'[t].idx # rloc[t].idx

\* The position in _models.items() this shutdown() call had reached.
PrevIdx(t) == IF rpc[t] = "shutdown_unloading" THEN rloc[t].idx ELSE 0

\* C26: a shutdown() call unloads a client only if it is loaded and the call
\* has not dealt with it before, however many slots reference it; and it
\* passes over a slot only if it has dealt with that slot's client before or
\* the client is not loaded.
C26_ShutdownUnloadsOnce ==
    [][\A t \in Tasks, c \in ClientIds :
          UnloadAwaited(t, c) =>
              /\ c \notin SeenBefore(t)
              /\ isLoaded[c]
              /\ \A i \in (PrevIdx(t) + 1)..(rloc'[t].idx - 1) :
                    LET d == models[modelOrder[i]]
                    IN /\ d \in rloc'[t].seen
                       /\ d \in SeenBefore(t) \/ ~isLoaded[d]]_vars

\* A shutdown() call has called unload() once on a client that the router and
\* fast slots share, and is now past both slots, unloading another client.
C26_Witness ==
    \E t \in Tasks :
        /\ rpc[t] = "shutdown_unloading"
        /\ models["fast"] # 0 /\ models["router"] = models["fast"]
        /\ unloads[models["fast"]] = 1
        /\ rloc[t].client # models["fast"]
        /\ models["fast"] \in rloc[t].seen


\* In this step the broadcast call of t moves on.
BroadcastStep(t) == <<wspc[t], wsloc[t]>> # <<wspc'[t], wsloc'[t]>>

\* In this step the broadcast call of t returns.
BroadcastReturns(t) == wspc'[t] = "returned" /\ BroadcastStep(t)

\* C27: when a broadcast returns, every targeted subscriber whose send failed
\* during that broadcast is out of the connection set, and every subscriber
\* whose send succeeded is still in it.
C27_SentStillConnected ==
    [][\A t \in Broadcasters :
          BroadcastReturns(t) =>
              /\ wsloc'[t].failed \cap wsConnections' = {}
              /\ wsloc'[t].sent \subseteq wsConnections']_vars

\* C27, amended: when a broadcast returns, every subscriber whose send failed
\* during that broadcast is out of the connection set, and the broadcast
\* itself removes none but the subscribers whose send failed.
C27_EvictsFailedOnly ==
    [][\A t \in Broadcasters :
          /\ BroadcastReturns(t) => wsloc'[t].failed \cap wsConnections' = {}
          /\ BroadcastStep(t) =>
                (wsConnections \ wsConnections') \subseteq wsloc'[t].failed]_vars

\* A broadcast has returned after one send that succeeded and one that
\* failed: the first subscriber is connected, the second is not.
C27_Witness ==
    \E t \in Broadcasters :
        /\ wspc[t] = "returned"
        /\ wsloc[t].sent # {} /\ wsloc[t].sent \subseteq wsConnections
        /\ wsloc[t].failed # {} /\ wsloc[t].failed \cap wsConnections = {}

\* In this step the connect call of t, holding the lock, reads the size of
\* the connection set.
ConnectDecides(t) ==
    wspc[t] \notin {"closing", "accepting"} /\ wspc'[t] \in {"closing", "accepting"}

\* C28: the connection set never holds more than max_connections clients,
\* whatever connect calls run concurrently; a connect that finds the cap
\* reached closes its socket with code 1013, and nothing is registered from
\* then until it has returned None.
C28_ConnectionCap ==
    /\ [](Cardinality(wsConnections) <= MaxConnections)
    /\ [][\A t \in Tasks :
             /\ ConnectDecides(t) /\ Cardinality(wsConnections) >= MaxConnections =>
                   wspc'[t] = "closing" /\ wsloc'[t].closeCode = 1013
             /\ wspc[t] = "closing" =>
                   /\ wsConnections' = wsConnections
                   /\ wsClientCounter' = wsClientCounter
                   /\ wspc'[t] \in {"closing", "refused"}]_vars

\* The cap is reached, one connect has been refused and the other, which
\* waited for the lock meanwhile, is being refused.
C28_Witness ==
    /\ Cardinality(wsConnections) = MaxConnections
    /\ \E t, u \in Tasks :
          /\ wspc[t] = "refused" /\ wsloc[t].closeCode = 1013
          /\ wspc[u] = "closing"


\* C29: a search for a content that was added before returns, for any k >= 1,
\* a result whose content equals it, whatever other memories are stored and
\* whether or not embeddings are available.
C29_AddThenSearchFinds ==
    ltSearch.stored =>
        \E i \in 1..Len(ltSearch.results) : ltSearch.results[i] = ltSearch.query


\* C30: enable or disable with a name that is not a loaded extension raises
\* KeyError and changes neither the set of registered extensions nor their
\* enabled flags.
C30_UnknownNameRaisesKeyError ==
    [][(/\ extCall' # extCall
        /\ extCall'.op \in {"enable", "disable"}
        /\ ~extensions[extCall'.name].loaded)
          => (extCall'.raised = "KeyError" /\ extensions' = extensions)]_vars

\* disable was called with the name of an extension that had been loaded and
\* removed again, while another extension is registered and disabled: the call
\* raised KeyError.
C30_Witness ==
    /\ extCall = [op |-> "disable", name |-> "user_ext", raised |-> "KeyError"]
    /\ ~extensions["user_ext"].loaded
    /\ extensions["generated_ext"] = [loaded |-> TRUE, enabled |-> FALSE]
    /\ extensions["core_ext"].loaded


\* In this step a flush ends: the bulk insert of the swapped-out batch is over.
FlushEnds(batch) ==
    \/ flushTask = "inserting" /\ flushTask' # "inserting" /\ batch = loopBatch
    \/ tsd = "final_insert" /\ tsd' # "final_insert" /\ batch = sdBatch

\* C31: a flush swaps the buffer for an empty one and writes exactly the
\* swapped-out points in one bulk insert: no point is written by two flushes,
\* and when a flush of N points ends, storage holds those N rows after the rows
\* it held before, and the buffer holds only points recorded after the swap.
C31_FlushWritesSwappedOnce ==
    /\ [](\A i, j \in 1..Len(tStored) : tStored[i] = tStored[j] => i = j)
    /\ [][\A batch \in {loopBatch, sdBatch} :
             FlushEnds(batch) =>
                 /\ tStored' = tStored \o batch
                 /\ \A i \in 1..Len(tBuffer'), j \in 1..Len(batch) :
                       tBuffer'[i] > batch[j]]_vars


\* C32: the switch lock is held only for the mutation of the active slot, never
\* across a model load, so that callers asking for different slots do not wait
\* for each other's load; and a per-slot load lock is held only by a caller
\* that is loading, never by one that has got its client back to generate.
C32_SwitchLockOnlyForActiveSlot ==
    \A t \in Tasks :
        /\ switchLock = t => rpc[t] \notin {"switch_loading", "init_loading", "get_loading"}
        /\ \A l \in ClientIds : lockHolder[l] = t => rpc[t] = "get_loading"


\* C39: a request ends in exactly one of the stages complete and error: one
\* that is in stage complete and has its completion metrics recorded does not
\* go on to stage error, and process returns a response if and only if the
\* request ended in stage complete.
C39_CompleteIsFinal ==
    /\ [](\A r \in Reqs :
             req[r].pc = "done" /\ req[r].out # "cancelled" =>
                 (req[r].out = "returned" <=> req[r].stage = "complete"))
    /\ [][\A r \in Reqs :
             req[r].stage = "complete" /\ r \in metricsFor' =>
                 req'[r].stage = "complete"]_vars


\* The last n items of a sequence, in order (all of them when there are fewer).
MostRecent(seq, n) ==
    IF Len(seq) <= n THEN seq ELSE SubSeq(seq, Len(seq) - n + 1, Len(seq))

\* C34: the short-term context read for generation is the recent buffer of the
\* session: when the session has more stored messages than max_messages, the
\* read returns the most recent max_messages of them in chronological order
\* (the oldest are the ones left out).
C34_ContextIsMostRecent ==
    [][\A s \in Sessions :
          stRead' # stRead /\ stRead'.kind = "repo" /\ stRead'.session = s =>
              stRead'.items =
                  MostRecent([i \in 1..Len(SessionRows(s)) |-> RowItem(SessionRows(s)[i])],
                             MaxMessages)]_vars


\* The position of a request's stage in the ProcessingStage enum.
StageOrder == <<"idle", "receiving", "intent_classification", "memory_retrieval",
                "extension_check", "extension_execution", "reasoning", "llm_processing",
                "llm_streaming", "post_processing", "memory_storage", "complete", "error">>
StageRank(stage) == CHOOSE i \in DOMAIN StageOrder : StageOrder[i] = stage

\* C33: within one pipeline the stage only moves forward: the stage of a
\* request never goes to an earlier stage of the enum, and a stage update
\* never moves the current-stage pointer of a registered pipeline to an
\* earlier stage.
C33_StagesMonotone ==
    /\ [][\A r \in Reqs : StageRank(req'[r].stage) >= StageRank(req[r].stage)]_vars
    /\ [][prUpdates' # prUpdates =>
             \A id \in RequestIds :
                 prPipelines[id] # NoPipeline =>
                     StageIndex(prPipelines'[id].current_stage)
                         >= StageIndex(prPipelines[id].current_stage)]_vars

\* C35: the registry never holds more pipelines than it is meant to keep,
\* whatever start, stage-update and finish calls were made.
C35_RegistryBounded == Len(prOrder) <= KeepPipelines


Initializing == {t \in Tasks : gspc[t] = "initializing"}

\* C37: at most one orchestrator initialization is in progress at any time; a
\* get_sena call made while one is running does not replace the instance being
\* initialized; and at most one instance is ever handed out, an initialized one.
C37_SingleInitialization ==
    /\ [](Cardinality(Initializing) <= 1)
    /\ [](Cardinality(gsHanded) <= 1 /\ gsHanded \subseteq gsInitialized)
    /\ [][\A t \in Tasks :
             t \in Initializing /\ gspc'[t] = "initializing" /\ gsInstance = gsSelf[t] =>
                 gsInstance' = gsInstance]_vars


\* C36: a broadcast that overlaps connect or disconnect calls completes
\* without raising: no broadcast call ends with the RuntimeError of a dict
\* that changed size under its loop (the delivery to every connection that
\* stayed registered and subscribed presupposes that the loop runs to its end).
C36_BroadcastNeverRaises == \A t \in Broadcasters : wspc[t] # "raised"


\* In this step the repository write of t's approve, reject or edit-and-approve
\* call returns True: the call goes on to its audit entry and reports success.
StatusWriteSucceeds(t) ==
    /\ ppc[t] = "fetched" /\ ppc'[t] = "written"
    /\ ploc[t].op \in {"approved", "rejected", "edited_and_approved"}

\* C38: approve, reject and edit-and-approve go on to their audit entry and
\* report success only if the fragment exists at the moment its row is
\* updated: racing with a delete of the same fragment, none of them succeeds
\* on a fragment that is already deleted.
C38_NoSuccessOnDeletedFragment ==
    [][\A t \in Tasks : StatusWriteSucceeds(t) => frags[ploc[t].id] # NoFrag]_vars


\* An earlier cooldown window has expired and no load failure has been counted
\* since the failure that opened it.
WindowExpiredNoFailureSince ==
    /\ routerCircuitOpenUntil > 0 /\ ~CircuitOpen
    /\ routerFailureCount = CIRCUIT_FAILURE_THRESHOLD

\* C40: the circuit opens only after 3 consecutive router-load failures with
\* no successful load in between; once a cooldown window has expired a single
\* further load failure does not re-open it; and whenever the circuit is open
\* the failure count is at least 3.
C40_OpensOnlyAfterThreeFailures ==
    /\ [][routerCircuitOpenUntil' # routerCircuitOpenUntil =>
             consecFails' >= CIRCUIT_FAILURE_THRESHOLD]_vars
    /\ [][WindowExpiredNoFailureSince => ~CircuitOpen']_vars
    /\ [](CircuitOpen => routerFailureCount >= CIRCUIT_FAILURE_THRESHOLD)

=============================================================================
